---- MODULE Spec2Model ----
(***************************************************************************)
(* Request orchestration of the SecureModelHub frontend.                   *)
(*                                                                         *)
(*   SpecRetry   : fetchWithRetry of src/frontend/contribute.js            *)
(*   SpecDetails : fetchModelDetails of src/frontend/app.js, as a function *)
(*                 of the two sub-responses and their order of arrival     *)
(*   Spec        : the catalogue page of src/frontend/app.js (list flow,   *)
(*                 search flow, enrichment on demand, modelDetailsCache)   *)
(***************************************************************************)
EXTENDS Integers, Sequences, FiniteSets, TLC

VARIABLES
    \* ---- contribute.js : fetchWithRetry ----
    rpc,            \* position in fetchWithRetry
    maxRetries,     \* the maxRetries argument of the running call
    attempt,        \* the loop variable
    responses,      \* outcomes of the fetch calls made so far, in order
    delays,         \* the setTimeout delays waited so far, in order
    returned,       \* the value the call resolved with
    thrown,         \* the error the call rejected with
    \* ---- app.js : one call of fetchModelDetails ----
    dpc,            \* position in fetchModelDetails
    ratingPromise,  \* fetch(.../rate).then(res => res.json())
    costPromise,    \* fetch(.../cost).then(res => res.json())
    detailsResult,  \* how the promise of fetchModelDetails settled
    ratingRes,      \* the response the rating request got (res), once arrived
    costRes,        \* the response the cost request got (res), once arrived
    previous,       \* the responses and the result of the call before this one
    \* ---- app.js : the catalogue page ----
    loaded,         \* DOMContentLoaded has been dispatched
    grid,           \* what modelsGrid shows, and the flow that wrote it
    flows,          \* list and search requests in flight
    nextSeq,        \* number of list and search flows started so far
    searchButton,   \* disabled and innerHTML of #searchButton
    searchInput,    \* disabled of #searchInput
    modelDetailsCache,  \* the Map of app.js:204, id -> details
    fetches,        \* calls of fetchModelDetails in flight, with their handler
    loading,        \* the cards that carry the class 'loading'
    clicks,         \* number of card and Details clicks so far
    modal,          \* what the modal opened last shows
    lastFetch,      \* the detail fetch that completed last
    \* ---- contribute.js : the contribute page ----
    location,       \* the document the browser has loaded
    spc,            \* position in the submit listener
    submitButton,   \* disabled and innerHTML of #submitButton
    messageContainer,   \* className and textContent of #messageContainer
    \* ---- artifact.js : the artifact page ----
    artifactType,   \* the type parameter of the page's URL
    apc,            \* position in loadArtifact: the request it awaits
    sent,           \* the requests the page has sent, in order
    answered,       \* the requests of loadArtifact that were answered, in order
    repoUrl,        \* the constant repoUrl of loadArtifact
    artifactNameText,   \* textContent of #artifactName
    netScore,       \* textContent of #netScore
    readmeContent,  \* textContent of #readmeContent
    consoleErrors,  \* the errors the catch of loadArtifact logged
    unhandled,      \* the functions whose promise rejected with no handler
    prompts,        \* number of confirm prompts shown so far
    confirmed,      \* number of prompts the user confirmed
    deleting,       \* number of DELETE requests in flight
    alerts          \* the alerts shown so far, in order

retryVars == <<rpc, maxRetries, attempt, responses, delays, returned, thrown>>

detailsVars == <<dpc, ratingPromise, costPromise, detailsResult,
                 ratingRes, costRes, previous>>

pageVars == <<loaded, grid, flows, nextSeq, searchButton, searchInput,
              modelDetailsCache, fetches, loading, clicks, modal, lastFetch>>

submitVars == <<location, spc, submitButton, messageContainer>>

artifactVars == <<artifactType, apc, sent, answered, repoUrl,
                  artifactNameText, netScore, readmeContent, consoleErrors,
                  unhandled, prompts, confirmed, deleting, alerts>>

vars == <<retryVars, detailsVars, pageVars, submitVars, artifactVars>>

(***************************************************************************)
(* Bounds                                                                  *)
(***************************************************************************)
MaxAttempts == 3        \* largest maxRetries argument explored

MaxFlows == 2           \* list and search flows started in one page session

MaxFlowsAlone == 4      \* flows started in a session of list and search flows only

MaxClicks == 2          \* card and Details clicks in one page session

MaxDeleteClicks == 2    \* clicks on the Delete button of one artifact page

(***************************************************************************)
(* HTTP outcomes.  A fetch either completes with a status and a body, or   *)
(* fails to complete (the promise of fetch rejects).                       *)
(***************************************************************************)
Statuses == {201, 202, 400, 403, 404, 409, 424, 500}

Bodies == {"", "conflict"}

NetworkFailure == [completed |-> FALSE, status |-> 0, body |-> ""]

HttpResponse(status, body) == [completed |-> TRUE, status |-> status, body |-> body]

RetryOutcomes ==
    {NetworkFailure} \cup {HttpResponse(s, b) : s \in Statuses, b \in Bodies}

\* response.statusText
StatusText(status) ==
    CASE status = 201 -> "Created"
      [] status = 202 -> "Accepted"
      [] status = 400 -> "Bad Request"
      [] status = 403 -> "Forbidden"
      [] status = 404 -> "Not Found"
      [] status = 409 -> "Conflict"
      [] status = 424 -> "Failed Dependency"
      [] status = 500 -> "Internal Server Error"
      [] OTHER -> ""

\* response.ok
OkMut(response) == response.completed /\ response.status = 200
Ok(response) == response.completed /\ response.status \in 200..299

\* the statuses the retry loop treats as not retriable
IsTerminalMut(status) == status \in {400, 403, 409}
IsTerminal(status) == status \in {400, 403, 409, 424}

(***************************************************************************)
(* Errors.  An Error is its name-prefix, the status it mentions and the    *)
(* text that follows.                                                      *)
(***************************************************************************)
NoError == [name |-> "", status |-> 0, text |-> ""]

Undefined == [completed |-> FALSE, status |-> -1, body |-> ""]

\* the error raised inside the try block for an outcome that is not ok
ErrorOf(response) ==
    IF ~response.completed
      THEN [name |-> "TypeError", status |-> 0, text |-> "Failed to fetch"]
    ELSE IF IsTerminal(response.status)
      THEN [name |-> "API Error", status |-> response.status,
            text |-> IF response.body # "" THEN response.body
                     ELSE StatusText(response.status)]
    ELSE [name |-> "HTTP Error", status |-> response.status,
          text |-> StatusText(response.status)]

RECURSIVE Pow2(_)
Pow2(n) == IF n = 0 THEN 1 ELSE 2 * Pow2(n - 1)

\* Math.pow(2, attempt) * 1000
DelayMut(a) == Pow2(a + 1) * 1000
Delay(a) == Pow2(a) * 1000

\* attempt === maxRetries - 1
IsLastAttemptMut(a, m) == a = m
IsLastAttempt(a, m) == a = m - 1

(***************************************************************************)
(* fetchWithRetry                                                          *)
(***************************************************************************)
RetryInit ==
    /\ rpc = "idle"
    /\ maxRetries = 0
    /\ attempt = 0
    /\ responses = <<>>
    /\ delays = <<>>
    /\ returned = Undefined
    /\ thrown = NoError

\* the call: the for loop is entered when 0 < maxRetries, otherwise the
\* function body ends and the call resolves with undefined
EnterFetchWithRetryKeeping(m) ==
    /\ maxRetries' = m
    /\ attempt' = attempt
    /\ responses' = <<>>
    /\ delays' = <<>>
    /\ returned' = Undefined
    /\ thrown' = NoError
    /\ rpc' = IF attempt < m THEN "fetching" ELSE "resolved"
EnterFetchWithRetry(m) ==
    /\ maxRetries' = m
    /\ attempt' = 0
    /\ responses' = <<>>
    /\ delays' = <<>>
    /\ returned' = Undefined
    /\ thrown' = NoError
    /\ rpc' = IF 0 < m THEN "fetching" ELSE "resolved"

\* a call of fetchWithRetry on its own
CallFetchWithRetry(m) ==
    /\ UNCHANGED <<detailsVars, pageVars, submitVars, artifactVars>>
    /\ rpc = "idle"
    /\ EnterFetchWithRetry(m)

\* await fetch(url, options) settles; the rest of the loop body runs
AttemptSettles(response) ==
    /\ UNCHANGED <<detailsVars, pageVars, submitVars, artifactVars>>
    /\ rpc = "fetching"
    /\ responses' = Append(responses, response)
    /\ IF Ok(response)
         THEN /\ rpc' = "resolved"
              /\ returned' = response
              /\ UNCHANGED <<thrown, delays>>
         ELSE IF IsLastAttempt(attempt, maxRetries)
           THEN /\ rpc' = "rejected"
                /\ thrown' = ErrorOf(response)
                /\ UNCHANGED <<returned, delays>>
           ELSE /\ rpc' = "waiting"
                /\ delays' = Append(delays, Delay(attempt))
                /\ UNCHANGED <<returned, thrown>>
    /\ UNCHANGED <<maxRetries, attempt>>

\* the timer of the backoff fires; attempt++ and the loop condition
TimerFires ==
    /\ UNCHANGED <<detailsVars, pageVars, submitVars, artifactVars>>
    /\ rpc = "waiting"
    /\ attempt' = attempt + 1
    /\ rpc' = IF attempt + 1 < maxRetries THEN "fetching" ELSE "resolved"
    /\ UNCHANGED <<maxRetries, responses, delays, returned, thrown>>

\* the caller has consumed the outcome; the next submission may call again
RetryDone ==
    /\ UNCHANGED <<detailsVars, pageVars, submitVars, artifactVars>>
    /\ rpc \in {"resolved", "rejected"}
    /\ rpc' = "idle"
    /\ UNCHANGED <<maxRetries, attempt, responses, delays, returned, thrown>>

RetryNext ==
    \/ \E m \in 0..MaxAttempts : CallFetchWithRetry(m)
    \/ \E response \in RetryOutcomes : AttemptSettles(response)
    \/ TimerFires
    \/ RetryDone


(***************************************************************************)
(* Properties of fetchWithRetry                                            *)
(***************************************************************************)
\* classification of an outcome as the retry policy states it
Is2xx(r) == r.completed /\ r.status >= 200 /\ r.status <= 299

InTerminalSet(r) == r.completed /\ r.status \in {400, 403, 409, 424}

IsTransient(r) == ~Is2xx(r) /\ ~InTerminalSet(r)

AllTransient == \A i \in 1..Len(responses) : IsTransient(responses[i])

StatusesSeen == [i \in 1..Len(responses) |-> responses[i].status]

CallOver == rpc \in {"resolved", "rejected", "idle"}

\* C2: a response whose status is in the terminal set {400, 403, 409, 424}
\* ends the call at once: it is the last attempt made, the call has failed,
\* and no backoff delay was started for it.
C2_TerminalFailsImmediately ==
    \A i \in 1..Len(responses) :
        InTerminalSet(responses[i]) =>
            /\ i = Len(responses)
            /\ CallOver /\ thrown # NoError
            /\ Len(delays) = i - 1

\* C3: with maxRetries = 3 and the responses 500, 500, 201 the call goes on
\* after each 500, and resolves with the 201 response after three attempts
\* and the two delays 1000 ms, 2000 ms in that order.
C3_Retry500_500_201 ==
    /\ (maxRetries = 3 /\ StatusesSeen = <<500>>)
          => (rpc \in {"waiting", "fetching"} /\ delays = <<1000>>)
    /\ (maxRetries = 3 /\ StatusesSeen = <<500, 500>>)
          => (rpc \in {"waiting", "fetching"} /\ delays = <<1000, 2000>>)
    /\ (maxRetries = 3 /\ StatusesSeen = <<500, 500, 201>>)
          => /\ CallOver
             /\ returned = responses[3]
             /\ thrown = NoError
             /\ delays = <<1000, 2000>>

C3_Witness ==
    /\ rpc = "resolved" /\ maxRetries = 3
    /\ StatusesSeen = <<500, 500, 201>>

\* C4: when every attempt ends in a transient failure, the call is still
\* running and has surfaced nothing before attempt maxRetries-1, makes exactly
\* maxRetries attempts, and then fails with the error of the last attempt.
C4_TransientExhaustsBudget ==
    (AllTransient /\ Len(responses) >= 1) =>
        LET n == Len(responses)
            last == responses[n]
        IN  /\ n <= maxRetries
            /\ n < maxRetries =>
                  /\ rpc \in {"waiting", "fetching"}
                  /\ thrown = NoError /\ returned = Undefined
            /\ n = maxRetries =>
                  /\ CallOver
                  /\ returned = Undefined
                  /\ thrown.status = last.status
                  /\ thrown.name = IF last.completed THEN "HTTP Error"
                                   ELSE "TypeError"

C4_Witness ==
    /\ rpc = "rejected" /\ maxRetries = 3 /\ Len(responses) = 3
    /\ AllTransient
    /\ ~responses[1].completed /\ responses[3].status = 500

\* C5 as stated: with maxRetries = 3, three transient failures are followed
\* by the delays 1 s, 2 s, 4 s.
C5_DelaysOneTwoFour ==
    (maxRetries = 3 /\ Len(responses) = 3 /\ AllTransient /\ CallOver)
        => delays = <<1000, 2000, 4000>>

\* C5 amended: a transient failure at zero-based attempt index k with
\* attempts remaining (k < maxRetries - 1) is followed by a wait of
\* 2^k * 1000 ms, and a failure at the last index by no wait; with
\* maxRetries = 3 the delays are 1 s after attempt 0 and 2 s after attempt 1.
C5_BackoffDelay ==
    /\ \A i \in 1..Len(responses) :
          IsTransient(responses[i]) =>
              IF i < maxRetries
                THEN Len(delays) >= i /\ delays[i] = (2 ^ (i - 1)) * 1000
                ELSE Len(delays) = i - 1
    /\ (maxRetries = 3 /\ Len(responses) = 3 /\ AllTransient)
          => delays = <<1000, 2000>>

C5_Witness ==
    /\ maxRetries = 3 /\ Len(responses) = 3 /\ AllTransient
    /\ rpc = "rejected" /\ Len(delays) = 2

\* C6: a 2xx response at any attempt index ends the call: it is the last
\* attempt made, the call resolves with exactly that response, and no delay
\* follows it.
C6_SuccessResolves ==
    \A i \in 1..Len(responses) :
        Is2xx(responses[i]) =>
            /\ i = Len(responses)
            /\ CallOver
            /\ returned = responses[i]
            /\ thrown = NoError
            /\ Len(delays) = i - 1

C6_Witness ==
    /\ rpc = "resolved" /\ Len(responses) = 2
    /\ responses[2].status = 201 /\ returned = responses[2]

\* C7: a terminal-set status on the final attempt (index maxRetries-1) makes
\* the call fail with the "API Error" that carries that status and the
\* response body text (the text is the body whenever the body is not empty),
\* and no delay follows that attempt.
C7_TerminalOnFinalAttempt ==
    (maxRetries >= 1 /\ Len(responses) = maxRetries
        /\ InTerminalSet(responses[Len(responses)])) =>
        LET last == responses[Len(responses)]
        IN  /\ CallOver
            /\ returned = Undefined
            /\ thrown.name = "API Error"
            /\ thrown.status = last.status
            /\ (last.body = "" \/ thrown.text = last.body)
            /\ Len(delays) = maxRetries - 1

C7_Witness ==
    /\ rpc = "rejected" /\ maxRetries = 3 /\ Len(responses) = 3
    /\ responses[3] = HttpResponse(424, "conflict")
    /\ thrown.text = "conflict"

(***************************************************************************)
(* JSON values as JavaScript sees them.  Scalars are records of one shape; *)
(* an object is its keys in insertion order and the values under them.     *)
(***************************************************************************)
JUndef == [t |-> "undefined", n |-> 0, s |-> ""]

JNull == [t |-> "null", n |-> 0, s |-> ""]

JNum(n) == [t |-> "number", n |-> n, s |-> ""]

JStr(s) == [t |-> "string", n |-> 0, s |-> s]

JObj(keys, vals) == [t |-> "object", keys |-> keys, vals |-> vals]

JArr(vals) == [t |-> "array", vals |-> vals]

\* the artifacts the registry lists; the last one has no id
ArtifactA == JObj(<<"id", "name", "type">>, <<JStr("a"), JStr("bert"), JStr("model")>>)

ArtifactB == JObj(<<"id", "name", "type">>, <<JStr("b"), JStr("squad"), JStr("dataset")>>)

ArtifactNoId == JObj(<<"name", "type">>, <<JStr("tool"), JStr("code")>>)

\* response.json(): the body texts the registry (or a gateway in front of it)
\* can send, and what each parses to; any other text is a SyntaxError
JsonParse(text) ==
    CASE text = "null" -> [ok |-> TRUE, value |-> JNull]
      [] text = "7" -> [ok |-> TRUE, value |-> JNum(7)]
      [] text = "{}" -> [ok |-> TRUE, value |-> JObj(<<>>, <<>>)]
      [] text = "{\"metadata\":{\"name\":\"bert\",\"id\":\"a\"}}" ->
            [ok |-> TRUE,
             value |-> JObj(<<"metadata">>,
                            <<JObj(<<"name", "id">>, <<JStr("bert"), JStr("a")>>)>>)]
      [] text = "{\"metadata\":{\"name\":\"bert\"},\"data\":{\"url\":\"https://github.com/google/bert\"}}" ->
            [ok |-> TRUE,
             value |-> JObj(<<"metadata", "data">>,
                            <<JObj(<<"name">>, <<JStr("bert")>>),
                              JObj(<<"url">>,
                                   <<JStr("https://github.com/google/bert")>>)>>)]
      [] text = "{\"metadata\":{\"id\":\"a\"}}" ->
            [ok |-> TRUE,
             value |-> JObj(<<"metadata">>, <<JObj(<<"id">>, <<JStr("a")>>)>>)]
      [] text = "{\"message\":\"Not Found\"}" ->
            [ok |-> TRUE, value |-> JObj(<<"message">>, <<JStr("Not Found")>>)]
      [] text = "{\"net_score\":1}" ->
            [ok |-> TRUE, value |-> JObj(<<"net_score">>, <<JNum(1)>>)]
      [] text = "{\"license\":1,\"net_score\":0}" ->
            [ok |-> TRUE,
             value |-> JObj(<<"license", "net_score">>, <<JNum(1), JNum(0)>>)]
      [] text = "{\"net_score\":null}" ->
            [ok |-> TRUE, value |-> JObj(<<"net_score">>, <<JNull>>)]
      [] text = "{\"net_score\":\"high\"}" ->
            [ok |-> TRUE, value |-> JObj(<<"net_score">>, <<JStr("high")>>)]
      [] text = "{\"a\":{\"total_cost\":12}}" ->
            [ok |-> TRUE,
             value |-> JObj(<<"a">>, <<JObj(<<"total_cost">>, <<JNum(12)>>)>>)]
      [] text = "{\"a\":{\"total_cost\":0},\"b\":{\"total_cost\":305}}" ->
            [ok |-> TRUE,
             value |-> JObj(<<"a", "b">>,
                            <<JObj(<<"total_cost">>, <<JNum(0)>>),
                              JObj(<<"total_cost">>, <<JNum(305)>>)>>)]
      [] text = "{\"a\":{}}" ->
            [ok |-> TRUE, value |-> JObj(<<"a">>, <<JObj(<<>>, <<>>)>>)]
      [] text = "{\"a\":null}" ->
            [ok |-> TRUE, value |-> JObj(<<"a">>, <<JNull>>)]
      [] text = "{\"a\":{\"total_cost\":null}}" ->
            [ok |-> TRUE,
             value |-> JObj(<<"a">>, <<JObj(<<"total_cost">>, <<JNull>>)>>)]
      [] text = "{\"a\":{\"total_cost\":\"big\"}}" ->
            [ok |-> TRUE,
             value |-> JObj(<<"a">>, <<JObj(<<"total_cost">>, <<JStr("big")>>)>>)]
      [] text = "[]" -> [ok |-> TRUE, value |-> JArr(<<>>)]
      [] text = "[{\"id\":\"a\",\"name\":\"bert\",\"type\":\"model\"},{\"id\":\"b\",\"name\":\"squad\",\"type\":\"dataset\"}]" ->
            [ok |-> TRUE, value |-> JArr(<<ArtifactA, ArtifactB>>)]
      [] text = "[{\"id\":\"a\",\"name\":\"bert\",\"type\":\"model\"}]" ->
            [ok |-> TRUE, value |-> JArr(<<ArtifactA>>)]
      [] text = "[{\"name\":\"tool\",\"type\":\"code\"}]" ->
            [ok |-> TRUE, value |-> JArr(<<ArtifactNoId>>)]
      [] OTHER -> [ok |-> FALSE, value |-> JUndef]

\* v?.key for a key that no primitive wrapper defines
OptGet(v, key) ==
    IF v.t = "object"
      THEN IF \E i \in 1..Len(v.keys) : v.keys[i] = key
             THEN v.vals[CHOOSE i \in 1..Len(v.keys) : v.keys[i] = key]
             ELSE JUndef
      ELSE JUndef

\* v ?? d
Nullish(v, d) == IF v.t \in {"undefined", "null"} THEN d ELSE v

\* Object.values(v) throws a TypeError for null and undefined
ObjectValuesThrows(v) == v.t \in {"undefined", "null"}

\* Object.values(v) of an object, of an array or of a number
ObjectValues(v) == IF v.t \in {"object", "array"} THEN v.vals ELSE <<>>

\* values[0]
First(values) == IF Len(values) = 0 THEN JUndef ELSE values[1]

Digit(d) ==
    CASE d = 0 -> "0" [] d = 1 -> "1" [] d = 2 -> "2" [] d = 3 -> "3"
      [] d = 4 -> "4" [] d = 5 -> "5" [] d = 6 -> "6" [] d = 7 -> "7"
      [] d = 8 -> "8" [] d = 9 -> "9"

RECURSIVE NumToStr(_)
NumToStr(n) == IF n < 10 THEN Digit(n) ELSE NumToStr(n \div 10) \o Digit(n % 10)

\* String(v), as a template literal applies it
StringOf(v) ==
    CASE v.t = "string" -> v.s
      [] v.t = "number" -> NumToStr(v.n)
      [] v.t = "null" -> "null"
      [] v.t = "undefined" -> "undefined"
      [] v.t = "object" -> "[object Object]"

(***************************************************************************)
(* Promises of the two sub-requests                                        *)
(***************************************************************************)
Pending == [state |-> "pending", value |-> JUndef]

Fulfilled(v) == [state |-> "fulfilled", value |-> v]

Rejected(why) == [state |-> "rejected", value |-> JStr(why)]

\* fetch(url).then(res => res.json()): the status of the response is not
\* looked at
SubRequestMut(response) ==
    IF ~response.completed THEN Rejected("TypeError: Failed to fetch")
    ELSE IF ~JsonParse(response.body).ok THEN Fulfilled(JUndef)
    ELSE Fulfilled(JsonParse(response.body).value)
SubRequest(response) ==
    IF ~response.completed THEN Rejected("TypeError: Failed to fetch")
    ELSE IF ~JsonParse(response.body).ok THEN Rejected("SyntaxError")
    ELSE Fulfilled(JsonParse(response.body).value)

\* Promise.all([ratingPromise, costPromise])
PromiseAll(rp, cp) ==
    IF rp.state = "rejected" \/ cp.state = "rejected" THEN "rejected"
    ELSE IF rp.state = "fulfilled" /\ cp.state = "fulfilled" THEN "fulfilled"
    ELSE "pending"

NA == JStr("N/A")

\* what fetchModelDetails settles with once Promise.all has settled
FetchModelDetailsReturnMut(rp, cp) ==
    IF PromiseAll(rp, cp) = "rejected" \/ ObjectValuesThrows(cp.value)
      THEN [settled |-> "rejected", rating |-> JUndef, cost |-> JUndef]
      ELSE [settled |-> "resolved",
            rating |-> Nullish(OptGet(rp.value, "net_score"), NA),
            cost |-> JStr(StringOf(Nullish(
                        OptGet(First(ObjectValues(cp.value)), "total_cost"),
                        NA)) \o " MB")]
FetchModelDetailsReturnSoFar(rp, cp) ==
    IF PromiseAll(rp, cp) = "rejected" \/ ObjectValuesThrows(cp.value)
      THEN [settled |-> "resolved",
            rating |-> IF rp.state = "fulfilled"
                         THEN Nullish(OptGet(rp.value, "net_score"), NA)
                         ELSE NA,
            cost |-> IF cp.state = "fulfilled" /\ ~ObjectValuesThrows(cp.value)
                       THEN JStr(StringOf(Nullish(
                                OptGet(First(ObjectValues(cp.value)),
                                       "total_cost"), NA)) \o " MB")
                       ELSE NA]
      ELSE [settled |-> "resolved",
            rating |-> Nullish(OptGet(rp.value, "net_score"), NA),
            cost |-> JStr(StringOf(Nullish(
                        OptGet(First(ObjectValues(cp.value)), "total_cost"),
                        NA)) \o " MB")]
FetchModelDetailsReturn(rp, cp) ==
    IF PromiseAll(rp, cp) = "rejected" \/ ObjectValuesThrows(cp.value)
      THEN [settled |-> "resolved", rating |-> NA, cost |-> NA]
      ELSE [settled |-> "resolved",
            rating |-> Nullish(OptGet(rp.value, "net_score"), NA),
            cost |-> JStr(StringOf(Nullish(
                        OptGet(First(ObjectValues(cp.value)), "total_cost"),
                        NA)) \o " MB")]

NotSettled == [settled |-> "no", rating |-> JUndef, cost |-> JUndef]

(***************************************************************************)
(* The responses a detail sub-request can get                              *)
(***************************************************************************)
SubStatuses == {200, 404, 500}

RatingBodies ==
    {"<html>", "null", "7", "{}", "{\"message\":\"Not Found\"}",
     "{\"net_score\":1}", "{\"license\":1,\"net_score\":0}",
     "{\"net_score\":null}", "{\"net_score\":\"high\"}"}

CostBodies ==
    {"<html>", "null", "7", "{}", "{\"message\":\"Not Found\"}",
     "{\"a\":{\"total_cost\":12}}",
     "{\"a\":{\"total_cost\":0},\"b\":{\"total_cost\":305}}",
     "{\"a\":{}}", "{\"a\":null}", "{\"a\":{\"total_cost\":null}}",
     "{\"a\":{\"total_cost\":\"big\"}}"}

RatingOutcomes ==
    {NetworkFailure}
        \cup {HttpResponse(st, b) : st \in SubStatuses, b \in RatingBodies}

CostOutcomes ==
    {NetworkFailure}
        \cup {HttpResponse(st, b) : st \in SubStatuses, b \in CostBodies}

(***************************************************************************)
(* fetchModelDetails, one call at a time                                   *)
(***************************************************************************)
\* no response has arrived yet
NoResponse == [completed |-> FALSE, status |-> -1, body |-> ""]

NoPrevious ==
    [ratingRes |-> NoResponse, costRes |-> NoResponse, result |-> NotSettled]

DetailsInit ==
    /\ dpc = "idle"
    /\ ratingPromise = Pending
    /\ costPromise = Pending
    /\ detailsResult = NotSettled
    /\ ratingRes = NoResponse
    /\ costRes = NoResponse
    /\ previous = NoPrevious

\* the call: both fetches are started, then Promise.all is awaited
CallFetchModelDetails ==
    /\ UNCHANGED <<retryVars, pageVars, submitVars, artifactVars>>
    /\ dpc = "idle"
    /\ dpc' = "awaiting"
    /\ ratingPromise' = Pending
    /\ costPromise' = Pending
    /\ detailsResult' = NotSettled
    /\ ratingRes' = NoResponse
    /\ costRes' = NoResponse
    /\ UNCHANGED previous

\* the continuation of the await, if Promise.all has settled
DetailsContinue(rp, cp) ==
    IF PromiseAll(rp, cp) = "pending"
      THEN UNCHANGED <<dpc, detailsResult>>
      ELSE /\ detailsResult' = FetchModelDetailsReturn(rp, cp)
           /\ dpc' = "settled"

RatingSettles(response) ==
    /\ UNCHANGED <<retryVars, pageVars, submitVars, artifactVars>>
    /\ dpc = "awaiting"
    /\ ratingPromise.state = "pending"
    /\ ratingPromise' = SubRequest(response)
    /\ ratingRes' = response
    /\ UNCHANGED <<costPromise, costRes, previous>>
    /\ DetailsContinue(SubRequest(response), costPromise)

CostSettles(response) ==
    /\ UNCHANGED <<retryVars, pageVars, submitVars, artifactVars>>
    /\ dpc = "awaiting"
    /\ costPromise.state = "pending"
    /\ costPromise' = SubRequest(response)
    /\ costRes' = response
    /\ UNCHANGED <<ratingPromise, ratingRes, previous>>
    /\ DetailsContinue(ratingPromise, SubRequest(response))

\* the response of the sub-request that was still in flight when the other
\* one rejected arrives after fetchModelDetails has returned
LateSettles(response) ==
    /\ UNCHANGED <<retryVars, pageVars, submitVars, artifactVars>>
    /\ dpc = "settled"
    /\ \/ /\ ratingPromise.state = "pending"
          /\ response \in RatingOutcomes
          /\ ratingPromise' = SubRequest(response)
          /\ ratingRes' = response
          /\ UNCHANGED <<costPromise, costRes>>
       \/ /\ costPromise.state = "pending"
          /\ response \in CostOutcomes
          /\ costPromise' = SubRequest(response)
          /\ costRes' = response
          /\ UNCHANGED <<ratingPromise, ratingRes>>
    /\ UNCHANGED <<dpc, detailsResult, previous>>

\* the caller has taken the record; fetchModelDetails may be called again
DetailsDone ==
    /\ UNCHANGED <<retryVars, pageVars, submitVars, artifactVars>>
    /\ dpc = "settled"
    /\ dpc' = "idle"
    /\ UNCHANGED <<ratingPromise, costPromise, detailsResult, ratingRes,
                   costRes, previous>>

\* the caller, having got the record of one call, calls fetchModelDetails
\* again with the same id and type; a sub-request of the earlier call that is
\* still in flight is left to itself
CallFetchModelDetailsAgain ==
    /\ UNCHANGED <<retryVars, pageVars, submitVars, artifactVars>>
    /\ dpc = "settled"
    /\ previous' = [ratingRes |-> ratingRes, costRes |-> costRes,
                    result |-> detailsResult]
    /\ dpc' = "awaiting"
    /\ ratingPromise' = Pending
    /\ costPromise' = Pending
    /\ detailsResult' = NotSettled
    /\ ratingRes' = NoResponse
    /\ costRes' = NoResponse

DetailsNext ==
    \/ CallFetchModelDetails
    \/ \E response \in RatingOutcomes : RatingSettles(response)
    \/ \E response \in CostOutcomes : CostSettles(response)
    \/ \E response \in RatingOutcomes \cup CostOutcomes : LateSettles(response)
    \/ DetailsDone

(***************************************************************************)
(* The catalogue page: list flow (init) and search flow (searchArtifacts)  *)
(***************************************************************************)
\* '<i class="fas fa-search"></i> Search'
SearchLabel == "<i class=\"fas fa-search\"></i> Search"

\* '<i class="fas fa-spinner fa-spin"></i> Searching'
SpinnerLabel == "<i class=\"fas fa-spinner fa-spin\"></i> Searching"

\* the markup of the button before any script has written it
InitialLabels == {SearchLabel, "Search"}

\* the texts of the search input, as sequences of characters
Queries == {<<>>, <<" ", " ">>, <<"b">>, <<" ", "b", " ">>}

RECURSIVE TrimStart(_)
TrimStart(q) == IF q # <<>> /\ Head(q) = " " THEN TrimStart(Tail(q)) ELSE q

RECURSIVE TrimEnd(_)
TrimEnd(q) ==
    IF q # <<>> /\ q[Len(q)] = " " THEN TrimEnd(SubSeq(q, 1, Len(q) - 1)) ELSE q

\* query.trim()
Trim(q) == TrimEnd(TrimStart(q))

\* !query || query.trim() === ''
IsBlankMut(q) == q = <<>>
IsBlank(q) == q = <<>> \/ Trim(q) = <<>>

\* the responses of the /artifacts and /artifact/byRegEx requests
CatalogOutcomes ==
    {NetworkFailure,
     HttpResponse(500, "<html>"),
     HttpResponse(404, "{\"message\":\"Not Found\"}"),
     HttpResponse(200, "<html>"),
     HttpResponse(200, "null"),
     HttpResponse(200, "{}"),
     HttpResponse(200, "[]"),
     HttpResponse(200, "[{\"id\":\"a\",\"name\":\"bert\",\"type\":\"model\"},{\"id\":\"b\",\"name\":\"squad\",\"type\":\"dataset\"}]"),
     HttpResponse(200, "[{\"name\":\"tool\",\"type\":\"code\"}]")}

\* modelsGrid: the kind of content, the message or query it shows, the cards
\* it holds, and the flow that wrote it last; by and from name the function
\* that rendered the content and the response it rendered it from
GridOf(view, message, query, cards, seq) ==
    [view |-> view, message |-> message, query |-> query, cards |-> cards,
     flow |-> seq, by |-> "", from |-> NoResponse]

\* the content g, rendered by the function by from its response
RenderedFrom(g, by, response) == [g EXCEPT !.by = by, !.from = response]

\* the card createModelCard builds for a listed artifact; an id the artifact
\* does not have reads as "" here (falsy, as undefined is)
CardOf(seq, by, model) ==
    [flow |-> seq, by |-> by,
     id |-> OptGet(model, "id").s, type |-> OptGet(model, "type").s]

\* artifacts.forEach(model => { ... modelsGrid.appendChild(placeholderCard) })
RenderCards(seq, by, artifacts) ==
    [i \in 1..Len(artifacts.vals) |-> CardOf(seq, by, artifacts.vals[i])]

\* init after its await: lines 257-319
InitRenderNoOkTest(seq, response) ==
    IF ~response.completed
      THEN GridOf("error", "Failed to fetch", <<>>, <<>>, seq)
    ELSE LET parsed == JsonParse(response.body)
             artifacts == parsed.value
         IN  IF ~parsed.ok
               THEN GridOf("error", "Unexpected token", <<>>, <<>>, seq)
             ELSE IF artifacts.t \in {"null", "undefined"}
               THEN GridOf("error", "Cannot read properties of null",
                           <<>>, <<>>, seq)
             ELSE IF artifacts.t = "array" /\ Len(artifacts.vals) = 0
               THEN GridOf("empty", "", <<>>, <<>>, seq)
             ELSE IF artifacts.t = "array"
               THEN GridOf("cards", "", <<>>,
                           RenderCards(seq, "init", artifacts), seq)
             ELSE GridOf("empty", "", <<>>, <<>>, seq)
InitRenderMut(seq, response) ==
    IF ~response.completed
      THEN GridOf("error", "Failed to fetch", <<>>, <<>>, seq)
    ELSE IF ~Ok(response)
      THEN GridOf("error",
                  "API Request Failed: " \o NumToStr(response.status) \o " "
                      \o StatusText(response.status), <<>>, <<>>, seq)
    ELSE LET parsed == JsonParse(response.body)
             artifacts == parsed.value
         IN  IF ~parsed.ok
               THEN GridOf("error", "Unexpected token", <<>>, <<>>, seq)
             ELSE IF artifacts.t \in {"null", "undefined"}
               THEN GridOf("error", "Cannot read properties of null",
                           <<>>, <<>>, seq)
             ELSE IF artifacts.t = "array"
               THEN GridOf("cards", "", <<>>,
                           RenderCards(seq, "init", artifacts), seq)
             ELSE GridOf("error", "artifacts.forEach is not a function",
                         <<>>, <<>>, seq)
InitRender(seq, response) ==
    IF ~response.completed
      THEN GridOf("error", "Failed to fetch", <<>>, <<>>, seq)
    ELSE IF ~Ok(response)
      THEN GridOf("error",
                  "API Request Failed: " \o NumToStr(response.status) \o " "
                      \o StatusText(response.status), <<>>, <<>>, seq)
    ELSE LET parsed == JsonParse(response.body)
             artifacts == parsed.value
         IN  IF ~parsed.ok
               THEN GridOf("error", "Unexpected token", <<>>, <<>>, seq)
             ELSE IF artifacts.t \in {"null", "undefined"}
               THEN GridOf("error", "Cannot read properties of null",
                           <<>>, <<>>, seq)
             ELSE IF artifacts.t = "array" /\ Len(artifacts.vals) = 0
               THEN GridOf("empty", "", <<>>, <<>>, seq)
             ELSE IF artifacts.t = "array"
               THEN GridOf("cards", "", <<>>,
                           RenderCards(seq, "init", artifacts), seq)
             ELSE GridOf("error", "artifacts.forEach is not a function",
                         <<>>, <<>>, seq)

\* searchArtifacts after its await: lines 66-124
SearchRenderMut(seq, query, response) ==
    IF ~response.completed \/ ~Ok(response)
      THEN GridOf("searchError", "", <<>>, <<>>, seq)
    ELSE LET parsed == JsonParse(response.body)
             artifacts == parsed.value
         IN  IF ~parsed.ok \/ artifacts.t # "array"
               THEN GridOf("searchError", "", <<>>, <<>>, seq)
             ELSE IF Len(artifacts.vals) = 0
               THEN GridOf("noMatches", "", query, <<>>, seq)
             ELSE GridOf("cards", "", <<>>,
                         RenderCards(seq, "searchArtifacts", artifacts), seq)
SearchRender(seq, query, response) ==
    IF ~response.completed
      THEN GridOf("searchError", "", <<>>, <<>>, seq)
    ELSE IF ~Ok(response)
      THEN IF response.status = 404
             THEN GridOf("noMatches", "", query, <<>>, seq)
             ELSE GridOf("searchError", "", <<>>, <<>>, seq)
    ELSE LET parsed == JsonParse(response.body)
             artifacts == parsed.value
         IN  IF ~parsed.ok
               THEN GridOf("searchError", "", <<>>, <<>>, seq)
             ELSE IF artifacts.t \in {"null", "undefined"}
               THEN GridOf("searchError", "", <<>>, <<>>, seq)
             ELSE IF artifacts.t = "array" /\ Len(artifacts.vals) = 0
               THEN GridOf("noMatches", "", query, <<>>, seq)
             ELSE IF artifacts.t = "array"
               THEN GridOf("cards", "", <<>>,
                           RenderCards(seq, "searchArtifacts", artifacts), seq)
             ELSE GridOf("searchError", "", <<>>, <<>>, seq)

NoModal == [opened |-> 0, id |-> "", rating |-> JUndef, cost |-> JUndef]

NoFetch == [id |-> "", failed |-> FALSE, done |-> FALSE, cause |-> ""]

EmptyMap == [id \in {} |-> NotSettled]

PageInit ==
    /\ loaded = FALSE
    /\ grid = GridOf("blank", "", <<>>, <<>>, 0)
    /\ flows = {}
    /\ nextSeq = 0
    /\ searchButton \in [disabled : {FALSE}, innerHTML : InitialLabels]
    /\ searchInput = [disabled |-> FALSE]
    /\ modelDetailsCache = EmptyMap
    /\ fetches = {}
    /\ loading = {}
    /\ clicks = 0
    /\ modal = NoModal
    /\ lastFetch = NoFetch

\* init up to its await: the placeholder is shown and the /artifacts request
\* is sent (lines 239-256)
\* by and query say who called init: the DOMContentLoaded listener, or
\* searchArtifacts with that query
InitStart(by, query) ==
    /\ nextSeq' = nextSeq + 1
    /\ grid' = GridOf("fetching", "", <<>>, <<>>, nextSeq + 1)
    /\ flows' = flows \cup {[seq |-> nextSeq + 1, kind |-> "list", by |-> by,
                             query |-> query, originalButtonContent |-> ""]}

\* document.addEventListener('DOMContentLoaded', init)
DOMContentLoaded ==
    /\ location = "index.html"
    /\ ~loaded
    /\ loaded' = TRUE
    /\ InitStart("DOMContentLoaded", <<>>)
    /\ UNCHANGED <<searchButton, searchInput, modelDetailsCache, fetches,
                   loading, clicks, modal, lastFetch>>
    /\ UNCHANGED <<retryVars, detailsVars, submitVars, artifactVars>>

\* the lock of the controls (lines 44-49)
LockMut ==
    /\ searchButton' = [disabled |-> FALSE, innerHTML |-> SpinnerLabel]
    /\ searchInput' = [disabled |-> FALSE]
Lock ==
    /\ searchButton' = [disabled |-> TRUE, innerHTML |-> SpinnerLabel]
    /\ searchInput' = [disabled |-> TRUE]

\* a click on the search button: searchArtifacts(searchInput.value) up to its
\* return or its await (lines 27-64); a disabled button dispatches no click.
\* max bounds the flows of the session.
SearchArtifactsUpTo(max, query) ==
    /\ loaded
    /\ ~searchButton.disabled
    /\ nextSeq < max
    /\ IF IsBlank(query)
         THEN /\ searchButton' = [disabled |-> FALSE, innerHTML |-> SearchLabel]
              /\ searchInput' = [disabled |-> FALSE]
              /\ InitStart("searchArtifacts", query)
         ELSE /\ Lock
              /\ nextSeq' = nextSeq + 1
              /\ grid' = GridOf("searching", "", <<>>, <<>>, nextSeq + 1)
              /\ flows' = flows \cup
                    {[seq |-> nextSeq + 1, kind |-> "search",
                      by |-> "searchArtifacts", query |-> query,
                      originalButtonContent |-> searchButton.innerHTML]}
    /\ UNCHANGED <<loaded, modelDetailsCache, fetches, loading, clicks, modal,
                   lastFetch>>
    /\ UNCHANGED <<retryVars, detailsVars, submitVars, artifactVars>>

SearchArtifacts(query) == SearchArtifactsUpTo(MaxFlows, query)

\* the /artifacts response arrives: the rest of init
ListSettlesRetrying(f, response) ==
    /\ f \in flows /\ f.kind = "list"
    /\ IF ~Ok(response) /\ nextSeq < MaxFlows
         THEN /\ flows' = (flows \ {f}) \cup {[f EXCEPT !.seq = nextSeq + 1]}
              /\ nextSeq' = nextSeq + 1
              /\ UNCHANGED grid
         ELSE /\ flows' = flows \ {f}
              /\ grid' = RenderedFrom(InitRender(f.seq, response), "init",
                                      response)
              /\ UNCHANGED nextSeq
    /\ UNCHANGED <<loaded, searchButton, searchInput, modelDetailsCache,
                   fetches, loading, clicks, modal, lastFetch>>
    /\ UNCHANGED <<retryVars, detailsVars, submitVars, artifactVars>>
ListSettlesClearing(f, response) ==
    /\ f \in flows /\ f.kind = "list"
    /\ flows' = flows \ {f}
    /\ grid' = RenderedFrom(InitRender(f.seq, response), "init", response)
    /\ modelDetailsCache' = EmptyMap
    /\ UNCHANGED <<loaded, nextSeq, searchButton, searchInput, fetches,
                   loading, clicks, modal, lastFetch>>
    /\ UNCHANGED <<retryVars, detailsVars, submitVars, artifactVars>>
ListSettlesEager(f, response) ==
    /\ f \in flows /\ f.kind = "list"
    /\ flows' = flows \ {f}
    /\ grid' = RenderedFrom(InitRender(f.seq, response), "init", response)
    /\ fetches' = fetches \cup
          {[n |-> 0 - i, k |-> 0,
            card |-> InitRender(f.seq, response).cards[i],
            ratingPromise |-> Pending, costPromise |-> Pending] :
                i \in 1..Len(InitRender(f.seq, response).cards)}
    /\ UNCHANGED <<loaded, nextSeq, searchButton, searchInput,
                   modelDetailsCache, loading, clicks, modal, lastFetch>>
    /\ UNCHANGED <<retryVars, detailsVars, submitVars, artifactVars>>
ListSettles(f, response) ==
    /\ f \in flows /\ f.kind = "list"
    /\ flows' = flows \ {f}
    /\ grid' = RenderedFrom(InitRender(f.seq, response), "init", response)
    /\ UNCHANGED <<loaded, nextSeq, searchButton, searchInput,
                   modelDetailsCache, fetches, loading, clicks, modal,
                   lastFetch>>
    /\ UNCHANGED <<retryVars, detailsVars, submitVars, artifactVars>>

\* the finally block of searchArtifacts (lines 125-130)
FinallyMut(f) ==
    /\ searchButton' = [disabled |-> FALSE, innerHTML |-> SearchLabel]
    /\ searchInput' = [disabled |-> FALSE]
Finally(f) ==
    /\ searchButton' = [disabled |-> FALSE,
                        innerHTML |-> f.originalButtonContent]
    /\ searchInput' = [disabled |-> FALSE]

\* the /artifact/byRegEx response arrives: the rest of searchArtifacts, with
\* its finally block
SearchSettles(f, response) ==
    /\ f \in flows /\ f.kind = "search"
    /\ flows' = flows \ {f}
    /\ grid' = RenderedFrom(SearchRender(f.seq, f.query, response),
                            "searchArtifacts", response)
    /\ Finally(f)
    /\ UNCHANGED <<loaded, nextSeq, modelDetailsCache, fetches, loading,
                   clicks, modal, lastFetch>>
    /\ UNCHANGED <<retryVars, detailsVars, submitVars, artifactVars>>

(***************************************************************************)
(* Enrichment on demand: the click handlers and modelDetailsCache          *)
(***************************************************************************)
\* the responses of the sub-requests of an enrichment
PageRatingOutcomes ==
    {NetworkFailure,
     HttpResponse(200, "{\"net_score\":1}"),
     HttpResponse(404, "{\"message\":\"Not Found\"}")}

PageCostOutcomes ==
    {NetworkFailure,
     HttpResponse(500, "<html>"),
     HttpResponse(200, "{\"a\":{\"total_cost\":12}}"),
     HttpResponse(200, "null")}

\* the catch block of fetchModelDetails is entered
DetailFetchFailed(rp, cp) ==
    PromiseAll(rp, cp) = "rejected" \/ ObjectValuesThrows(cp.value)

\* the error the catch block of fetchModelDetails logs (line 155), "" if none
DetailFetchError(rp, cp) ==
    IF rp.state = "rejected" THEN rp.value.s
    ELSE IF cp.state = "rejected" THEN cp.value.s
    ELSE IF PromiseAll(rp, cp) = "fulfilled" /\ ObjectValuesThrows(cp.value)
      THEN "TypeError: Cannot convert undefined or null to object"
    ELSE ""

\* modelDetailsCache.set(id, details)
CacheSetPromise(cache, id, details) ==
    [k \in DOMAIN cache \cup {id} |-> IF k = id THEN Pending ELSE cache[k]]
CacheSetMut(cache, id, details) == [k \in {id} |-> details]
CacheSet(cache, id, details) ==
    [k \in DOMAIN cache \cup {id} |-> IF k = id THEN details ELSE cache[k]]

\* modelDetailsCache.has(id)
CacheHasMut(cache, id) == FALSE
CacheHas(cache, id) == id \in DOMAIN cache

\* openModelModal(model, details)
OpenModelModal(id, details) ==
    [opened |-> modal.opened + 1, id |-> id,
     rating |-> details.rating, cost |-> details.cost]

CardsShown == {grid.cards[i] : i \in 1..Len(grid.cards)}

\* what a click lands on: the card outside its Details button, or the button
Targets == {"card", "details"}

\* `if (e.target.closest('.btn-details')) return;` (lines 88, 280): the
\* card's own listener goes on unless the click landed on the Details button
CardListenerHandlesMut(target) == TRUE
CardListenerHandles(target) == target # "details"

\* `const detailsBtn = ev.target.closest('.btn-details'); if (detailsBtn)`
\* (lines 347-348): the listener of modelsGrid goes on for the button only
GridListenerHandles(target) == target = "details"

\* the part of both handlers from the cache test on, run on the marks,
\* fetches and modal st that the listener before it left: a hit opens the
\* modal from the cache, a miss marks the card and calls fetchModelDetails.
\* A call is told apart by the click that started it (n) and by the number
\* of calls the same click had started before it (k)
Enrich(st, card) ==
    IF CacheHas(modelDetailsCache, card.id)
      THEN [st EXCEPT !.modal =
                [OpenModelModal(card.id, modelDetailsCache[card.id])
                    EXCEPT !.opened = st.modal.opened + 1]]
      ELSE [st EXCEPT !.loading = @ \cup {card},
                      !.fetches = @ \cup
                          {[n |-> clicks + 1,
                            k |-> Cardinality({f \in st.fetches :
                                                  f.n = clicks + 1}),
                            card |-> card,
                            ratingPromise |-> Pending,
                            costPromise |-> Pending]}]

\* the listener that init or searchArtifacts attached to the card (lines
\* 87-116, 279-309)
CardListener(st, card, target) ==
    IF ~CardListenerHandles(target) \/ card.id = ""
      THEN st
      ELSE Enrich(st, card)

\* the Details branch of the listener of modelsGrid (lines 347-373)
GridListener(st, card, target) ==
    IF ~GridListenerHandles(target)
      THEN st
      ELSE Enrich(st, card)

\* one click on a card: the event reaches the card's own listener and then
\* bubbles to the listener of modelsGrid; each runs up to its first await
ClickOn(card, target) ==
    /\ card \in CardsShown
    /\ clicks < MaxClicks
    /\ clicks' = clicks + 1
    /\ LET before == [fetches |-> fetches, loading |-> loading,
                      modal |-> modal]
           after == GridListener(CardListener(before, card, target),
                                 card, target)
       IN  /\ fetches' = after.fetches
           /\ loading' = after.loading
           /\ modal' = after.modal
    /\ UNCHANGED <<loaded, grid, flows, nextSeq, searchButton, searchInput,
                   modelDetailsCache, lastFetch>>
    /\ UNCHANGED <<retryVars, detailsVars, submitVars, artifactVars>>

\* a click on a card outside its Details button
CardClick(card) == ClickOn(card, "card")

\* a click on the Details button of a card
DetailsClick(card) == ClickOn(card, "details")

\* a sub-response of the fetch f arrives and leaves its promises as rp, cp.
\* While Promise.all is pending only the promise changes; once it has settled
\* fetchModelDetails returns and the handler that awaited it runs to its end:
\* cache.set, openModelModal, and classList.remove('loading') in the finally.
SubResponse(f, rp, cp) ==
    IF PromiseAll(rp, cp) = "pending"
      THEN /\ fetches' = (fetches \ {f}) \cup
                 {[f EXCEPT !.ratingPromise = rp, !.costPromise = cp]}
           /\ UNCHANGED <<modelDetailsCache, modal, loading, lastFetch>>
      ELSE LET r == FetchModelDetailsReturn(rp, cp)
               details == [rating |-> r.rating, cost |-> r.cost]
           IN  /\ fetches' = fetches \ {f}
               /\ IF r.settled = "resolved"
                    THEN /\ modelDetailsCache' =
                               CacheSet(modelDetailsCache, f.card.id, details)
                         /\ modal' = OpenModelModal(f.card.id, details)
                    ELSE UNCHANGED <<modelDetailsCache, modal>>
               /\ loading' = loading \ {f.card}
               /\ lastFetch' = [id |-> f.card.id,
                                failed |-> DetailFetchFailed(rp, cp),
                                done |-> TRUE,
                                cause |-> DetailFetchError(rp, cp)]

RatingArrives(f, response) ==
    /\ f \in fetches
    /\ f.ratingPromise.state = "pending"
    /\ SubResponse(f, SubRequest(response), f.costPromise)
    /\ UNCHANGED <<loaded, grid, flows, nextSeq, searchButton, searchInput,
                   clicks>>
    /\ UNCHANGED <<retryVars, detailsVars, submitVars, artifactVars>>

CostArrives(f, response) ==
    /\ f \in fetches
    /\ f.costPromise.state = "pending"
    /\ SubResponse(f, f.ratingPromise, SubRequest(response))
    /\ UNCHANGED <<loaded, grid, flows, nextSeq, searchButton, searchInput,
                   clicks>>
    /\ UNCHANGED <<retryVars, detailsVars, submitVars, artifactVars>>

PageNext ==
    \/ DOMContentLoaded
    \/ \E query \in Queries : SearchArtifacts(query)
    \/ \E f \in flows, response \in CatalogOutcomes : ListSettles(f, response)
    \/ \E f \in flows, response \in CatalogOutcomes : SearchSettles(f, response)
    \/ \E card \in CardsShown : CardClick(card)
    \/ \E card \in CardsShown : DetailsClick(card)
    \/ \E f \in fetches, response \in PageRatingOutcomes :
          RatingArrives(f, response)
    \/ \E f \in fetches, response \in PageCostOutcomes :
          CostArrives(f, response)

(***************************************************************************)
(* The contribute page: the submit listener of contribute.js               *)
(***************************************************************************)
\* '<i class="fas fa-upload"></i> Submit Artifact'
SubmitLabel == "<i class=\"fas fa-upload\"></i> Submit Artifact"

\* '<i class="fas fa-spinner fa-spin"></i> Submitting...'
SubmittingLabel == "<i class=\"fas fa-spinner fa-spin\"></i> Submitting..."

\* maxRetries = 3, the default the submit listener relies on
DefaultMaxRetries == 3

\* the outcomes of POST /artifact/{type}
SubmitOutcomes ==
    {NetworkFailure,
     HttpResponse(500, ""),
     HttpResponse(409, "conflict"),
     HttpResponse(202, ""),
     HttpResponse(201, "{\"metadata\":{\"name\":\"bert\",\"id\":\"a\"}}"),
     HttpResponse(201, "{\"metadata\":{\"id\":\"a\"}}"),
     HttpResponse(201, "null"),
     HttpResponse(201, "<html>")}

\* the operand of || counts as true
Truthy(v) ==
    ~ \/ v.t \in {"undefined", "null"}
      \/ v.t = "string" /\ v.s = ""
      \/ v.t = "number" /\ v.n = 0

\* error.message of an error fetchWithRetry throws
ErrorMessage(error) ==
    CASE error.name = "API Error" ->
            "API Error (" \o NumToStr(error.status) \o "): " \o error.text
      [] error.name = "HTTP Error" ->
            "HTTP Error: " \o NumToStr(error.status) \o " " \o error.text
      [] OTHER -> error.text

\* showMessage(`Submission Failed: ${error.message}. Please try again.`, true)
FailureMessage(message) ==
    [className |-> "error",
     textContent |-> "Submission Failed: " \o message \o ". Please try again."]

\* showMessage(`Artifact "${artifactName}" registered successfully! ...`, false)
SuccessMessage(artifactName, artifactId) ==
    [className |-> "success",
     textContent |-> "Artifact \"" \o artifactName
                        \o "\" registered successfully! ID: " \o artifactId]

\* the try block after `await fetchWithRetry` has resolved with response
\* (lines 93-103) and the catch block for what it throws
SubmitResolvedAny2xx(response) ==
    IF ~response.completed
      THEN FailureMessage("Cannot read properties of undefined")
    ELSE LET parsed == JsonParse(response.body)
             result == parsed.value
             name == OptGet(OptGet(result, "metadata"), "name")
             id == OptGet(OptGet(result, "metadata"), "id")
         IN  IF ~parsed.ok
               THEN SuccessMessage("Unknown", "N/A")
             ELSE IF result.t = "null"
               THEN FailureMessage("Cannot read properties of null")
             ELSE IF ~Truthy(name)
               THEN FailureMessage("nameInput is not defined")
             ELSE SuccessMessage(StringOf(name),
                                 IF Truthy(id) THEN StringOf(id) ELSE "N/A")
SubmitResolvedLenient(response) ==
    IF ~response.completed
      THEN FailureMessage("Cannot read properties of undefined")
    ELSE IF response.status # 201
      THEN FailureMessage("Unexpected successful response status: "
                              \o NumToStr(response.status))
    ELSE LET result == JsonParse(response.body).value
             name == OptGet(OptGet(result, "metadata"), "name")
             id == OptGet(OptGet(result, "metadata"), "id")
         IN  IF result.t = "null"
               THEN FailureMessage("Cannot read properties of null")
             ELSE IF ~Truthy(name)
               THEN SuccessMessage("undefined", IF Truthy(id) THEN StringOf(id) ELSE "N/A")
             ELSE SuccessMessage(StringOf(name),
                                 IF Truthy(id) THEN StringOf(id) ELSE "N/A")
SubmitResolved(response) ==
    IF ~response.completed
      THEN FailureMessage("Cannot read properties of undefined")
    ELSE IF response.status # 201
      THEN FailureMessage("Unexpected successful response status: "
                              \o NumToStr(response.status))
    ELSE LET parsed == JsonParse(response.body)
             result == parsed.value
             name == OptGet(OptGet(result, "metadata"), "name")
             id == OptGet(OptGet(result, "metadata"), "id")
         IN  IF ~parsed.ok
               THEN FailureMessage("Unexpected token")
             ELSE IF result.t = "null"
               THEN FailureMessage("Cannot read properties of null")
             ELSE IF ~Truthy(name)
               THEN FailureMessage("nameInput is not defined")
             ELSE SuccessMessage(StringOf(name),
                                 IF Truthy(id) THEN StringOf(id) ELSE "N/A")

SubmitInit ==
    /\ spc = "idle"
    /\ submitButton = [disabled |-> FALSE, innerHTML |-> SubmitLabel]
    /\ messageContainer = [className |-> "hidden", textContent |-> ""]

\* the submit event: the UI is locked, the old message is hidden and
\* fetchWithRetry(url, options) is called (lines 61-91); a disabled submit
\* button dispatches no submit event
Submit ==
    /\ location = "contribute.html"
    /\ ~submitButton.disabled
    /\ submitButton' = [disabled |-> TRUE, innerHTML |-> SubmittingLabel]
    /\ messageContainer' = [messageContainer EXCEPT !.className = "hidden"]
    /\ spc' = "awaiting"
    /\ EnterFetchWithRetry(DefaultMaxRetries)
    /\ UNCHANGED <<location, detailsVars, pageVars, artifactVars>>

\* fetchWithRetry has settled: the rest of the try block, or the catch block,
\* and the finally block (lines 93-113)
SubmitSettlesNoFinally ==
    /\ spc = "awaiting"
    /\ rpc \in {"resolved", "rejected"}
    /\ messageContainer' =
          IF rpc = "resolved" THEN SubmitResolved(returned)
          ELSE FailureMessage(ErrorMessage(thrown))
    /\ submitButton' =
          IF rpc = "resolved" /\ SubmitResolved(returned).className = "success"
            THEN [disabled |-> FALSE, innerHTML |-> SubmitLabel]
            ELSE submitButton
    /\ spc' = "idle"
    /\ rpc' = "idle"
    /\ UNCHANGED <<maxRetries, attempt, responses, delays, returned, thrown>>
    /\ UNCHANGED <<location, detailsVars, pageVars, artifactVars>>
SubmitSettles ==
    /\ spc = "awaiting"
    /\ rpc \in {"resolved", "rejected"}
    /\ messageContainer' =
          IF rpc = "resolved" THEN SubmitResolved(returned)
          ELSE FailureMessage(ErrorMessage(thrown))
    /\ submitButton' = [disabled |-> FALSE, innerHTML |-> SubmitLabel]
    /\ spc' = "idle"
    /\ rpc' = "idle"
    /\ UNCHANGED <<maxRetries, attempt, responses, delays, returned, thrown>>
    /\ UNCHANGED <<location, detailsVars, pageVars, artifactVars>>

SubmitNext ==
    \/ Submit
    \/ \E response \in SubmitOutcomes : AttemptSettles(response)
    \/ TimerFires
    \/ SubmitSettles

(***************************************************************************)
(* The artifact page: artifact.js                                          *)
(***************************************************************************)
ArtifactTypes == {"model", "dataset", "code"}

\* the responses to GET /artifacts/{type}/{id}
MetaOutcomes ==
    {NetworkFailure,
     HttpResponse(200, "{\"metadata\":{\"name\":\"bert\"},\"data\":{\"url\":\"https://github.com/google/bert\"}}"),
     HttpResponse(200, "{\"metadata\":{\"name\":\"bert\",\"id\":\"a\"}}"),
     HttpResponse(404, "{\"message\":\"Not Found\"}"),
     HttpResponse(200, "null"),
     HttpResponse(500, "<html>")}

\* the responses to GET /artifact/{type}/{id}/rate
ArtifactRatingOutcomes ==
    {NetworkFailure,
     HttpResponse(200, "{\"net_score\":1}"),
     HttpResponse(200, "{\"net_score\":\"high\"}"),
     HttpResponse(404, "{\"message\":\"Not Found\"}"),
     HttpResponse(200, "null"),
     HttpResponse(500, "<html>")}

\* the responses to GET {repoUrl}/raw/main/README.md
ReadmeOutcomes ==
    {NetworkFailure, HttpResponse(200, "# BERT"), HttpResponse(404, "Not Found")}

\* the responses to DELETE /artifacts/{type}/{id}
DeleteOutcomes ==
    {NetworkFailure, HttpResponse(200, ""), HttpResponse(204, ""),
     HttpResponse(404, ""), HttpResponse(500, "")}

NoReadme == "No README available."

\* n.toFixed(3) of a whole number
ToFixed3(n) == NumToStr(n) \o ".000"

\* artifactType === "model" (line 22)
IsModelMut(type) == TRUE
IsModel(type) == type = "model"

\* res.status === 200 (line 89)
IsDeletedAny2xx(response) == response.status \in 200..299
IsDeleted(response) == response.status = 200

\* the page as the browser has it before the script of artifact.js runs
ArtifactInit ==
    /\ apc = "start"
    /\ sent = <<>>
    /\ answered = <<>>
    /\ repoUrl = JUndef
    /\ artifactNameText = ""
    /\ netScore = ""
    /\ readmeContent = ""
    /\ consoleErrors = <<>>
    /\ unhandled = <<>>
    /\ prompts = 0
    /\ confirmed = 0
    /\ deleting = 0
    /\ alerts = <<>>

\* no artifact page is open
NoArtifactPage == ArtifactInit /\ artifactType = ""

\* loadArtifact() at the end of the script (line 97) up to its first await:
\* the metadata request is sent
LoadArtifact ==
    /\ location = "artifact.html"
    /\ apc = "start"
    /\ apc' = "metadata"
    /\ sent' = Append(sent, "metadata")
    /\ UNCHANGED <<artifactType, answered, repoUrl, artifactNameText, netScore,
                   readmeContent, consoleErrors, unhandled, prompts,
                   confirmed, deleting, alerts>>
    /\ UNCHANGED <<retryVars, detailsVars, pageVars, submitVars>>

\* an error thrown inside the try of loadArtifact: the catch logs it and
\* loadArtifact resolves (lines 60-62)
LoadArtifactUncaught(err) ==
    /\ apc' = "done"
    /\ unhandled' = Append(unhandled, "loadArtifact")
    /\ UNCHANGED consoleErrors
LoadArtifactCatch(err) ==
    /\ apc' = "done"
    /\ consoleErrors' = Append(consoleErrors, err)
    /\ UNCHANGED unhandled

\* loadReadme(url) up to its await (lines 65-74)
LoadReadme(url) ==
    IF ~Truthy(url)
      THEN /\ readmeContent' = NoReadme
           /\ apc' = "done"
           /\ UNCHANGED sent
      ELSE /\ sent' = Append(sent, "readme")
           /\ apc' = "readme"
           /\ UNCHANGED readmeContent

\* the metadata response arrives: lines 12-22, then the rating request for a
\* model, and lines 47-58 for the other types
MetaArrives(response) ==
    /\ location = "artifact.html"
    /\ apc = "metadata"
    /\ answered' = Append(answered, "metadata")
    /\ LET meta == SubRequest(response)
           name == OptGet(OptGet(meta.value, "metadata"), "name")
           url == OptGet(OptGet(meta.value, "data"), "url")
       IN  IF meta.state = "rejected"
             THEN /\ LoadArtifactCatch(meta.value.s)
                  /\ UNCHANGED <<sent, repoUrl, artifactNameText, netScore,
                                 readmeContent>>
           ELSE IF meta.value.t = "null"
             THEN /\ LoadArtifactCatch("TypeError: Cannot read properties of null")
                  /\ UNCHANGED <<sent, repoUrl, artifactNameText, netScore,
                                 readmeContent>>
           ELSE /\ artifactNameText' = IF Truthy(name) THEN StringOf(name)
                                                  ELSE "Unknown Artifact"
                /\ repoUrl' = url
                /\ UNCHANGED <<consoleErrors, unhandled>>
                /\ IF IsModel(artifactType)
                     THEN /\ sent' = Append(sent, "rating")
                          /\ apc' = "rating"
                          /\ UNCHANGED <<netScore, readmeContent>>
                     ELSE /\ netScore' = "N/A"
                          /\ LoadReadme(url)
    /\ UNCHANGED <<artifactType, prompts, confirmed, deleting, alerts>>
    /\ UNCHANGED <<retryVars, detailsVars, pageVars, submitVars>>

\* the rating response arrives: lines 23-43 and 53-58
ArtifactRatingArrives(response) ==
    /\ location = "artifact.html"
    /\ apc = "rating"
    /\ answered' = Append(answered, "rating")
    /\ LET rating == SubRequest(response)
           score == OptGet(rating.value, "net_score")
       IN  IF rating.state = "rejected"
             THEN /\ LoadArtifactCatch(rating.value.s)
                  /\ UNCHANGED <<sent, netScore, readmeContent>>
           ELSE IF rating.value.t = "null"
             THEN /\ LoadArtifactCatch("TypeError: Cannot read properties of null")
                  /\ UNCHANGED <<sent, netScore, readmeContent>>
           ELSE IF score.t \in {"undefined", "null"}
             THEN /\ LoadArtifactCatch("TypeError: Cannot read properties of undefined")
                  /\ UNCHANGED <<sent, netScore, readmeContent>>
           ELSE IF score.t # "number"
             THEN /\ LoadArtifactCatch("TypeError: rating.net_score.toFixed is not a function")
                  /\ UNCHANGED <<sent, netScore, readmeContent>>
           ELSE /\ netScore' = ToFixed3(score.n)
                /\ UNCHANGED <<consoleErrors, unhandled>>
                /\ LoadReadme(repoUrl)
    /\ UNCHANGED <<artifactType, repoUrl, artifactNameText, prompts, confirmed,
                   deleting, alerts>>
    /\ UNCHANGED <<retryVars, detailsVars, pageVars, submitVars>>

\* the README request settles: lines 74-78, then loadArtifact returns
ReadmeArrives(response) ==
    /\ location = "artifact.html"
    /\ apc = "readme"
    /\ answered' = Append(answered, "readme")
    /\ readmeContent' = IF response.completed THEN response.body ELSE NoReadme
    /\ apc' = "done"
    /\ UNCHANGED <<artifactType, sent, repoUrl, artifactNameText, netScore,
                   consoleErrors, unhandled, prompts, confirmed, deleting,
                   alerts>>
    /\ UNCHANGED <<retryVars, detailsVars, pageVars, submitVars>>

\* a click on the Delete button: the prompt, and the DELETE request when the
\* user confirms (lines 82-87)
DeleteClick(answer) ==
    /\ location = "artifact.html"
    /\ apc # "start"
    /\ prompts < MaxDeleteClicks
    /\ prompts' = prompts + 1
    /\ IF answer
         THEN /\ confirmed' = confirmed + 1
              /\ sent' = Append(sent, "DELETE")
              /\ deleting' = deleting + 1
         ELSE UNCHANGED <<confirmed, sent, deleting>>
    /\ UNCHANGED <<artifactType, apc, answered, repoUrl, artifactNameText,
                   netScore, readmeContent, consoleErrors, unhandled, alerts>>
    /\ UNCHANGED <<retryVars, detailsVars, pageVars, submitVars>>

\* a DELETE request settles: lines 89-94. The handler has no try, so a
\* request that fails without a response rejects the handler's promise
DeleteArrives(response) ==
    /\ location = "artifact.html"
    /\ deleting > 0
    /\ deleting' = deleting - 1
    /\ IF ~response.completed
         THEN /\ unhandled' = Append(unhandled, "deleteBtn.onclick")
              /\ UNCHANGED <<alerts, location>>
       ELSE IF IsDeleted(response)
         THEN /\ alerts' = Append(alerts, "Artifact deleted permanently.")
              /\ location' = "home.html"
              /\ UNCHANGED unhandled
       ELSE /\ alerts' = Append(alerts, "Delete failed.")
            /\ UNCHANGED <<unhandled, location>>
    /\ UNCHANGED <<artifactType, apc, sent, answered, repoUrl, artifactNameText,
                   netScore, readmeContent, consoleErrors, prompts, confirmed>>
    /\ UNCHANGED <<spc, submitButton, messageContainer>>
    /\ UNCHANGED <<retryVars, detailsVars, pageVars>>

ArtifactNext ==
    \/ LoadArtifact
    \/ \E response \in MetaOutcomes : MetaArrives(response)
    \/ \E response \in ArtifactRatingOutcomes : ArtifactRatingArrives(response)
    \/ \E response \in ReadmeOutcomes : ReadmeArrives(response)
    \/ \E answer \in BOOLEAN : DeleteClick(answer)
    \/ \E response \in DeleteOutcomes : DeleteArrives(response)

(***************************************************************************)
(* Specifications                                                          *)
(***************************************************************************)
Init ==
    /\ RetryInit /\ DetailsInit /\ PageInit /\ SubmitInit /\ NoArtifactPage
    /\ location = "index.html"

\* the browser opens one of the two pages
SiteInit ==
    /\ RetryInit /\ DetailsInit /\ PageInit /\ SubmitInit /\ NoArtifactPage
    /\ location \in {"index.html", "contribute.html"}

SiteNext == PageNext \/ SubmitNext

SpecSite == SiteInit /\ [][SiteNext]_vars

\* the browser opens the contribute page
ContributeInit ==
    /\ RetryInit /\ DetailsInit /\ PageInit /\ SubmitInit /\ NoArtifactPage
    /\ location = "contribute.html"

SpecContribute == ContributeInit /\ [][SubmitNext]_vars

\* the browser opens the page of an artifact
ArtifactPageInit ==
    /\ RetryInit /\ DetailsInit /\ PageInit /\ SubmitInit /\ ArtifactInit
    /\ location = "artifact.html"
    /\ artifactType \in ArtifactTypes

SpecArtifact == ArtifactPageInit /\ [][ArtifactNext]_vars

SpecRetry == Init /\ [][RetryNext]_vars

SpecDetails == Init /\ [][DetailsNext]_vars

\* calls of fetchModelDetails one after the other
TwiceNext ==
    \/ CallFetchModelDetails
    \/ \E response \in PageRatingOutcomes : RatingSettles(response)
    \/ \E response \in PageCostOutcomes : CostSettles(response)
    \/ \E response \in PageRatingOutcomes \cup PageCostOutcomes :
          LateSettles(response)
    \/ CallFetchModelDetailsAgain

SpecTwice == Init /\ [][TwiceNext]_vars

Spec == Init /\ [][PageNext]_vars

\* the catalogue page while nobody clicks a card: list and search flows only
FlowsNext ==
    \/ DOMContentLoaded
    \/ \E query \in Queries : SearchArtifactsUpTo(MaxFlowsAlone, query)
    \/ \E f \in flows, response \in CatalogOutcomes : ListSettles(f, response)
    \/ \E f \in flows, response \in CatalogOutcomes : SearchSettles(f, response)

SpecFlows == Init /\ [][FlowsNext]_vars

(***************************************************************************)
(* Properties of fetchModelDetails                                         *)
(***************************************************************************)
\* C10: fetchModelDetails never rejects: whatever the two sub-requests do
\* (success, HTTP error status, transport failure, non-JSON body, missing
\* field), once Promise.all has settled the call is resolved with a record
\* whose rating and cost fields both hold a value.
C10_NeverRejects ==
    /\ detailsResult.settled # "rejected"
    /\ (PromiseAll(ratingPromise, costPromise) # "pending" /\ dpc # "awaiting")
          <=> detailsResult.settled = "resolved"
    /\ detailsResult.settled = "resolved" =>
          /\ detailsResult.rating.t # "undefined"
          /\ detailsResult.cost.t # "undefined"

C10_Witness ==
    /\ detailsResult.settled = "resolved"
    /\ ratingPromise.state = "fulfilled"
    /\ costPromise = Fulfilled(JNull)

\* a sub-fetch that could not be completed or whose body is not JSON
SubFetchRejects(res) ==
    res # NoResponse /\ (~res.completed \/ ~JsonParse(res.body).ok)

SubFetchParsed(res) ==
    res # NoResponse /\ res.completed /\ JsonParse(res.body).ok

RatingIsSentinel == detailsResult.rating = JStr("N/A")

CostIsSentinel == detailsResult.cost \in {JStr("N/A"), JStr("N/A MB")}

\* C11 as stated: no record is returned in which one field holds a real
\* value and the other holds the failure sentinel.
C11_NoPartialRecord ==
    detailsResult.settled = "resolved" => (RatingIsSentinel <=> CostIsSentinel)

\* What the code does guarantee: when one of the two sub-fetches rejects
\* (transport failure or a body that is not JSON), whatever the other one
\* does, the record returned is {rating: "N/A", cost: "N/A"}; a record with a
\* real value in one field and the sentinel in the other is returned only
\* when both sub-requests delivered parsed JSON.
RejectionGivesAllNA ==
    detailsResult.settled = "resolved" =>
        /\ (SubFetchRejects(ratingRes) \/ SubFetchRejects(costRes)) =>
              /\ detailsResult.rating = JStr("N/A")
              /\ detailsResult.cost = JStr("N/A")
        /\ ~(RatingIsSentinel <=> CostIsSentinel) =>
              SubFetchParsed(ratingRes) /\ SubFetchParsed(costRes)

RejectionGivesAllNAReached ==
    /\ detailsResult.settled = "resolved"
    /\ ratingRes = HttpResponse(200, "<html>")
    /\ costRes = HttpResponse(200, "{\"a\":{\"total_cost\":12}}")
    /\ detailsResult.rating = JStr("N/A") /\ detailsResult.cost = JStr("N/A")

(***************************************************************************)
(* Properties of the enrichment path and of modelDetailsCache              *)
(***************************************************************************)
\* C1: for every artifact id at most one rating+cost sub-fetch sequence is in
\* flight at a time: enrichment requests for an id made while its detail
\* fetch is pending do not call fetchModelDetails again.
C1_OneFetchPerId ==
    \A f \in fetches, g \in fetches : f.card.id = g.card.id => f = g

\* C8: after a detail fetch for an id has failed (a sub-request could not be
\* completed or parsed), modelDetailsCache holds no entry for that id.
C8_FailedFetchNotCached ==
    (lastFetch.done /\ lastFetch.failed)
        => lastFetch.id \notin DOMAIN modelDetailsCache

FailureRecord == [rating |-> JStr("N/A"), cost |-> JStr("N/A")]

\* C9: an entry of modelDetailsCache that came from a successful detail fetch
\* is never removed, by any step of the list flow, the search flow or an
\* enrichment; it changes only when a detail fetch for the same id completes.
C9_SuccessfulEntriesStay ==
    [][\A id \in DOMAIN modelDetailsCache :
          modelDetailsCache[id] # FailureRecord =>
              /\ id \in DOMAIN modelDetailsCache'
              /\ modelDetailsCache'[id] # modelDetailsCache[id] =>
                    \E f \in fetches : f.card.id = id /\ f \notin fetches']_vars

C9_Witness ==
    /\ "a" \in DOMAIN modelDetailsCache
    /\ modelDetailsCache["a"] = [rating |-> JNum(1), cost |-> JStr("12 MB")]
    /\ "b" \in DOMAIN modelDetailsCache
    /\ grid.view = "noMatches" /\ grid.flow = 2
    /\ flows = {} /\ fetches = {}

(***************************************************************************)
(* Properties of the list flow and the search flow                         *)
(***************************************************************************)
\* a query that is empty or holds nothing but spaces
OnlySpaces(q) == \A i \in 1..Len(q) : q[i] = " "

\* the flows the step starts
Started == flows' \ flows

\* C12: a search with an empty or whitespace-only query runs the list flow
\* (init) and sends no /artifact/byRegEx request, and it leaves the search
\* input and the search button enabled.
C12_BlankQueryRunsList ==
    /\ [](\A f \in flows : f.kind = "search" => ~OnlySpaces(f.query))
    /\ [][\A f \in Started :
            (f.by = "searchArtifacts" /\ OnlySpaces(f.query)) =>
                /\ f.kind = "list"
                /\ Started = {f}
                /\ ~searchButton'.disabled
                /\ ~searchInput'.disabled]_vars

C12_Witness ==
    /\ \E f \in flows : /\ f.kind = "list" /\ f.by = "searchArtifacts"
                         /\ f.query = <<" ", " ">>
    /\ \A f \in flows : f.kind = "list"
    /\ ~searchButton.disabled /\ ~searchInput.disabled

\* the content of the grid was rendered by the search flow
SearchRendered == grid.by = "searchArtifacts"

\* C13: in the search flow a 404 response gives the "no matches" state and
\* never the error state; a 500, any other non-2xx status that is not 404,
\* and a transport failure give the error state; the two states are distinct
\* contents of the grid.
C13_NotFoundIsNoMatches ==
    SearchRendered =>
        /\ (grid.from.completed /\ grid.from.status = 404) =>
              /\ grid.view = "noMatches"
              /\ ~OnlySpaces(grid.query)
        /\ (~grid.from.completed
              \/ (grid.from.status \notin 200..299 /\ grid.from.status # 404))
              => grid.view = "searchError"
        /\ grid.view \in {"noMatches", "searchError", "cards"}

C13_Witness ==
    /\ SearchRendered
    /\ grid.from = HttpResponse(404, "{\"message\":\"Not Found\"}")
    /\ grid.view = "noMatches"
    /\ flows = {}

\* a /artifact/byRegEx request is in flight
SearchInFlight == \E f \in flows : f.kind = "search"

\* C14: a non-blank search disables the search input and the search button
\* in the step that sends the request and re-enables both on every exit path
\* (results, no matches, error): while a search request is in flight both are
\* disabled, while none is in flight both are enabled, and the button then
\* shows again the label it had when it was locked.
C14_ControlsLockedWhileSearching ==
    /\ [](SearchInFlight => searchButton.disabled /\ searchInput.disabled)
    /\ [](~SearchInFlight =>
            /\ ~searchButton.disabled /\ ~searchInput.disabled
            /\ searchButton.innerHTML # SpinnerLabel)
    /\ [][(~SearchInFlight /\ SearchInFlight') =>
            \E f \in Started :
                /\ f.kind = "search"
                /\ f.originalButtonContent = searchButton.innerHTML]_vars
    /\ [][(SearchInFlight /\ ~SearchInFlight') =>
            \E f \in flows \ flows' :
                /\ f.kind = "search"
                /\ searchButton'.innerHTML = f.originalButtonContent]_vars

C14_Witness ==
    /\ SearchRendered
    /\ grid.view = "searchError"
    /\ ~SearchInFlight
    /\ ~searchButton.disabled /\ ~searchInput.disabled
    /\ searchButton.innerHTML = "Search"

\* C15: the response of a flow that a later flow has superseded is discarded:
\* once every request has been answered, the grid shows the outcome of the
\* flow that was started last.
C15_LatestFlowWins ==
    (flows = {} /\ nextSeq > 0) => grid.flow = nextSeq

\* the list flows whose response the step handles
ListSettled == {f \in flows \ flows' : f.kind = "list"}

\* C16: when the /artifacts response is an empty array the list flow ends in
\* the empty state: the grid holds the empty-state message and no card (so
\* no card handler exists), the cache is neither read nor written and no
\* rating or cost request is sent.
C16_EmptyListIsTerminal ==
    [][(ListSettled # {} /\ grid'.from = HttpResponse(200, "[]")) =>
        /\ grid'.view = "empty"
        /\ grid'.cards = <<>>
        /\ grid'.flow \in {f.seq : f \in ListSettled}
        /\ modelDetailsCache' = modelDetailsCache
        /\ fetches' = fetches
        /\ modal' = modal]_vars

C16_Witness ==
    /\ grid.by = "init"
    /\ grid.from = HttpResponse(200, "[]")
    /\ grid.view = "empty"
    /\ flows = {}

\* C18: in the list flow a transport failure or a non-2xx status ends in the
\* error state, which carries the failure message, never in the empty state
\* or a rendered list; every invocation of the flow ends in exactly one of
\* rendered, empty and error.
C18_ListFailureIsError ==
    /\ [](grid.by = "init" =>
            /\ ~grid.from.completed =>
                  grid.view = "error" /\ grid.message = "Failed to fetch"
            /\ (grid.from.completed /\ grid.from.status \notin 200..299) =>
                  /\ grid.view = "error"
                  /\ grid.message =
                        "API Request Failed: " \o NumToStr(grid.from.status)
                            \o " " \o StatusText(grid.from.status)
            /\ grid.view \in {"cards", "empty", "error"}
            /\ grid.view = "cards" <=> grid.cards # <<>>)
    /\ [][ListSettled # {} =>
            /\ grid'.by = "init"
            /\ grid'.flow \in {f.seq : f \in ListSettled}]_vars

C18_Witness ==
    /\ grid.by = "init"
    /\ grid.from = HttpResponse(500, "<html>")
    /\ grid.view = "error"
    /\ grid.message = "API Request Failed: 500 Internal Server Error"

\* the detail fetches the step starts
FetchesStarted == {f \in fetches' : f.n \notin {g.n : g \in fetches}}

Unparsable(r) ==
    r.completed /\ r.status \in 200..299 /\ ~JsonParse(r.body).ok

\* the detail fetches whose handler the step runs to its end
FetchesCompleted == {f \in fetches : f.n \notin {g.n : g \in fetches'}}

\* the submit listener runs to its end in this step
SubmissionEnds == spc = "awaiting" /\ spc' = "idle"

\* C19: a response whose body cannot be parsed as JSON is handled on every
\* path: the list flow and the search flow end in their error state, a
\* detail fetch resolves with the record {rating: "N/A", cost: "N/A"}, and a
\* submission shows the failure message and re-enables the submit button, as
\* each of them does for a transport failure.
C19_UnparsableBodyIsHandled ==
    /\ []((grid.by = "init" /\ (Unparsable(grid.from) \/ ~grid.from.completed))
            => grid.view = "error")
    /\ []((SearchRendered /\ (Unparsable(grid.from) \/ ~grid.from.completed))
            => grid.view = "searchError")
    /\ [][\A f \in FetchesCompleted :
            lastFetch'.cause \in {"SyntaxError", "TypeError: Failed to fetch"} =>
                /\ lastFetch'.id = f.card.id
                /\ modal'.id = f.card.id
                /\ modal'.rating = JStr("N/A") /\ modal'.cost = JStr("N/A")
                /\ f.card \notin loading']_vars
    /\ [][(SubmissionEnds /\ rpc = "resolved" /\ returned.status = 201
              /\ Unparsable(returned)) =>
            /\ messageContainer' =
                  [className |-> "error",
                   textContent |-> "Submission Failed: Unexpected token. Please try again."]
            /\ submitButton' = [disabled |-> FALSE, innerHTML |-> SubmitLabel]]_vars
    /\ [][(SubmissionEnds /\ rpc = "rejected" /\ thrown.name = "TypeError") =>
            /\ messageContainer' =
                  [className |-> "error",
                   textContent |-> "Submission Failed: Failed to fetch. Please try again."]
            /\ submitButton' = [disabled |-> FALSE, innerHTML |-> SubmitLabel]]_vars

C19_Witness ==
    /\ spc = "idle"
    /\ returned = HttpResponse(201, "<html>")
    /\ messageContainer.className = "error"
    /\ ~submitButton.disabled

(***************************************************************************)
(* Properties of successive calls of fetchModelDetails                     *)
(***************************************************************************)
\* C20: two calls of fetchModelDetails in sequence, the second after the
\* first has resolved, return the same record when the sub-requests of the
\* two calls got the same responses, whatever order the responses arrived
\* in: the record depends on the two responses only, not on an earlier call.
C20_SameResponsesSameRecord ==
    (/\ previous.result.settled = "resolved"
     /\ detailsResult.settled = "resolved"
     /\ ratingRes = previous.ratingRes
     /\ costRes = previous.costRes)
        => detailsResult = previous.result

C20_Witness ==
    /\ previous.result.settled = "resolved"
    /\ detailsResult.settled = "resolved"
    /\ ratingRes = NetworkFailure /\ previous.ratingRes = NetworkFailure
    /\ costRes = HttpResponse(200, "{\"a\":{\"total_cost\":12}}")
    /\ previous.costRes = costRes
    /\ detailsResult = previous.result

(***************************************************************************)
(* Properties of the record fetchModelDetails builds                       *)
(***************************************************************************)
\* net_score of the rating payload that arrived
NetScoreSent == OptGet(JsonParse(ratingRes.body).value, "net_score")

\* total_cost of the first entry of the cost payload that arrived
TotalCostSent ==
    OptGet(First(ObjectValues(JsonParse(costRes.body).value)), "total_cost")

\* C21: when both sub-requests have completed, rating is the net_score of
\* the rating payload if that is present and numeric and "N/A" otherwise, and
\* cost is the total_cost of the first entry of the cost payload with the
\* unit suffix if that is present and numeric and "N/A" otherwise.
C21_NumericOrSentinel ==
    (/\ detailsResult.settled = "resolved"
     /\ SubFetchParsed(ratingRes) /\ SubFetchParsed(costRes)) =>
        /\ detailsResult.rating =
              IF NetScoreSent.t = "number" THEN NetScoreSent ELSE JStr("N/A")
        /\ detailsResult.cost =
              IF TotalCostSent.t = "number"
                THEN JStr(NumToStr(TotalCostSent.n) \o " MB")
                ELSE JStr("N/A")

\* the record the two parsed payloads determine, whichever arrived first
RecordSent ==
    IF SubFetchRejects(ratingRes) \/ SubFetchRejects(costRes)
         \/ JsonParse(costRes.body).value.t \in {"null", "undefined"}
      THEN [settled |-> "resolved", rating |-> JStr("N/A"),
            cost |-> JStr("N/A")]
      ELSE [settled |-> "resolved",
            rating |-> IF NetScoreSent.t \in {"null", "undefined"}
                         THEN JStr("N/A") ELSE NetScoreSent,
            cost |-> JStr((IF TotalCostSent.t \in {"null", "undefined"}
                             THEN "N/A" ELSE StringOf(TotalCostSent))
                          \o " MB")]

\* C22: the rating request and the cost request are both sent before either
\* is awaited, so both are in flight together; the record is produced only
\* once both have completed or one has failed; and the responses may arrive
\* in either order: the record is the one the two responses determine.
C22_FanOutJoin ==
    /\ [][(dpc = "idle" /\ dpc' = "awaiting") =>
            /\ ratingPromise' = Pending /\ costPromise' = Pending
            /\ ratingRes' = NoResponse /\ costRes' = NoResponse]_vars
    /\ [](dpc = "awaiting" =>
            /\ detailsResult.settled = "no"
            /\ "pending" \in {ratingPromise.state, costPromise.state}
            /\ "rejected" \notin {ratingPromise.state, costPromise.state})
    /\ [](detailsResult.settled # "no" =>
            \/ ratingRes # NoResponse /\ costRes # NoResponse
            \/ SubFetchRejects(ratingRes) \/ SubFetchRejects(costRes))
    /\ []((detailsResult.settled # "no"
              /\ ratingRes # NoResponse /\ costRes # NoResponse)
            => detailsResult = RecordSent)

C22_Witness ==
    /\ detailsResult.settled = "resolved"
    /\ ratingRes = NetworkFailure
    /\ costRes = HttpResponse(200, "{\"a\":{\"total_cost\":12}}")
    /\ costPromise.state = "fulfilled"
    /\ detailsResult.rating = JStr("N/A") /\ detailsResult.cost = JStr("N/A")

(***************************************************************************)
(* Properties of the enrichment handlers and of modelDetailsCache          *)
(***************************************************************************)
\* the step handles a click on a card or on a Details button
Click == clicks' = clicks + 1

\* C23: when modelDetailsCache holds an entry for an id, a click on a card
\* of that id (on the card or on its Details button) opens the modal with
\* the cached record and sends no rating or cost request.
C23_CacheHitSendsNothing ==
    [][Click =>
        /\ \A f \in FetchesStarted : f.card.id \notin DOMAIN modelDetailsCache
        /\ modelDetailsCache' = modelDetailsCache
        /\ modal' # modal =>
              /\ fetches' = fetches
              /\ modal'.opened = modal.opened + 1
              /\ modal'.id \in DOMAIN modelDetailsCache
              /\ modal'.rating = modelDetailsCache[modal'.id].rating
              /\ modal'.cost = modelDetailsCache[modal'.id].cost
        /\ (\A c \in CardsShown :
                c.id # "" /\ c.id \in DOMAIN modelDetailsCache) =>
              fetches' = fetches /\ modal'.opened = modal.opened + 1]_vars

C23_Witness ==
    /\ clicks = 2
    /\ modal.opened = 2
    /\ modal.id = "a"
    /\ "a" \in DOMAIN modelDetailsCache
    /\ modelDetailsCache["a"].rating = JStr("N/A")
    /\ fetches = {}

\* C24: an enrichment changes the cache entry of its own id only: when the
\* detail record of one id resolves, the cache entries of every other id,
\* the enrichments of other ids that are in flight and their cards' loading
\* markers stay as they are; enrichments of distinct ids are in flight
\* together and complete in either order.
C24_EnrichmentTouchesOwnIdOnly ==
    [][\A f \in FetchesCompleted :
        /\ DOMAIN modelDetailsCache' =
              DOMAIN modelDetailsCache \cup {f.card.id}
        /\ \A id \in DOMAIN modelDetailsCache \ {f.card.id} :
              modelDetailsCache'[id] = modelDetailsCache[id]
        /\ \A g \in fetches :
              g.card.id # f.card.id =>
                  /\ g \in fetches'
                  /\ g.card \in loading' <=> g.card \in loading
        /\ FetchesStarted = {}]_vars

C24_Witness ==
    /\ \E f \in fetches : f.n = 1 /\ f.card.id = "a"
    /\ "b" \in DOMAIN modelDetailsCache
    /\ "a" \notin DOMAIN modelDetailsCache
    /\ lastFetch.id = "b"

\* C25: modelDetailsCache is written by the enrichment handlers only, and
\* only after a detail fetch for the written id has completed: a step that
\* changes the cache completes a detail fetch and adds or replaces the entry
\* of that fetch's id; the steps of the list flow, of the search flow and of
\* a submission leave the cache as it is.
C25_OnlyEnrichmentWritesCache ==
    /\ [][modelDetailsCache' # modelDetailsCache =>
            /\ \E f \in FetchesCompleted :
                  /\ f.card.id \in DOMAIN modelDetailsCache'
                  /\ \A id \in DOMAIN modelDetailsCache \ {f.card.id} :
                        /\ id \in DOMAIN modelDetailsCache'
                        /\ modelDetailsCache'[id] = modelDetailsCache[id]
                  /\ DOMAIN modelDetailsCache' \subseteq
                        DOMAIN modelDetailsCache \cup {f.card.id}
            /\ flows' = flows /\ grid' = grid
            /\ spc' = spc /\ rpc' = rpc]_vars
    /\ [][(flows' # flows \/ spc' # spc \/ rpc' # rpc \/ attempt' # attempt)
            => modelDetailsCache' = modelDetailsCache]_vars
    /\ [](location = "contribute.html" => modelDetailsCache = EmptyMap)

C25_Witness ==
    /\ grid.by = "init" /\ grid.flow = 2
    /\ flows = {}
    /\ "a" \in DOMAIN modelDetailsCache
    /\ fetches = {}

(***************************************************************************)
(* Properties of the use of the retry policy                               *)
(***************************************************************************)
\* the list and search flows whose response the step handles
FlowsSettled == flows \ flows'

\* C26: only a submission goes through fetchWithRetry. Every invocation of
\* the list flow sends one /artifacts request and every non-blank search one
\* /artifact/byRegEx request; when that request fails the flow shows its
\* error state in the step that handles the response, and no request is
\* sent again and no delay is waited.
C26_NoRetryOutsideSubmission ==
    /\ [](location = "index.html" =>
            /\ rpc = "idle" /\ attempt = 0
            /\ responses = <<>> /\ delays = <<>>)
    /\ [](/\ \A f \in flows : f.seq \in 1..nextSeq
          /\ \A f \in flows, g \in flows : f.seq = g.seq => f = g)
    /\ [][/\ nextSeq' \in {nextSeq, nextSeq + 1}
          /\ nextSeq' = nextSeq + 1 <=>
                \E f \in Started : Started = {f} /\ f.seq = nextSeq']_vars
    /\ [][FlowsSettled # {} =>
            /\ Started = {}
            /\ grid'.flow \in {f.seq : f \in FlowsSettled}
            /\ (~grid'.from.completed \/ grid'.from.status \notin 200..299) =>
                  \/ grid'.by = "init" /\ grid'.view = "error"
                  \/ grid'.by = "searchArtifacts" /\ grid'.view = "searchError"
                  \/ /\ grid'.by = "searchArtifacts"
                     /\ grid'.from.status = 404 /\ grid'.view = "noMatches"
            /\ UNCHANGED <<rpc, attempt, responses, delays>>]_vars

C26_Witness ==
    /\ SearchRendered
    /\ grid.from = NetworkFailure
    /\ grid.view = "searchError"
    /\ grid.flow = nextSeq
    /\ flows = {}
    /\ delays = <<>>

(***************************************************************************)
(* Properties of the submission flow                                       *)
(***************************************************************************)
\* the submit listener is entered in this step
SubmissionStarts == spc = "idle" /\ spc' = "awaiting"

\* an earlier submission has left its message behind
SubmittedBefore == messageContainer.textContent # ""

\* the responses of the running submission that were not successful
FailedSoFar == {i \in 1..Len(responses) : ~Is2xx(responses[i])}

\* C27: a submission keeps nothing of the submissions before it: the attempt
\* counter and the backoff of fetchWithRetry start afresh, and the number of
\* attempts and the delays waited are those its own responses call for: one
\* attempt per response, at most three, and after the k-th failed response
\* that is not the last attempt a wait of 2^(k-1) seconds.
C27_SubmissionStartsFresh ==
    /\ [][SubmissionStarts =>
            /\ maxRetries' = 3 /\ attempt' = 0
            /\ responses' = <<>> /\ delays' = <<>>
            /\ rpc' = "fetching"]_vars
    /\ [](spc = "awaiting" =>
            /\ Len(responses) <= 3
            /\ \A i \in 1..Len(responses) - 1 : ~Is2xx(responses[i])
            /\ delays = [i \in FailedSoFar \ {3} |-> Pow2(i - 1) * 1000]
            /\ attempt \in {Len(delays) - 1, Len(delays)}
            /\ rpc = "fetching" <=>
                  (attempt = Len(responses) /\ FailedSoFar = 1..Len(responses))
            /\ rpc = "resolved" <=>
                  (responses # <<>> /\ Is2xx(responses[Len(responses)]))
            /\ rpc = "rejected" <=> FailedSoFar = 1..3)

C27_Witness ==
    /\ spc = "awaiting"
    /\ messageContainer.textContent =
          "Submission Failed: HTTP Error: 500 Internal Server Error. Please try again."
    /\ Len(responses) = 2
    /\ rpc = "resolved"
    /\ delays = <<1000>>

(***************************************************************************)
(* Properties of successive searches                                       *)
(***************************************************************************)
SearchesInFlight == {f \in flows : f.kind = "search"}

\* C28: at most one /artifact/byRegEx request is in flight at any time: the
\* search button is disabled from the step that starts a non-blank search
\* until the finally block of that search has run, so searchArtifacts is not
\* called while a search is pending.
C28_OneSearchInFlight ==
    /\ [](Cardinality(SearchesInFlight) <= 1)
    /\ [](SearchesInFlight # {} => searchButton.disabled)
    /\ [][\A f \in Started :
            f.by = "searchArtifacts" =>
                SearchesInFlight = {} /\ ~searchButton.disabled]_vars

C28_Witness ==
    /\ nextSeq = 3
    /\ grid.view = "searching" /\ grid.flow = 3
    /\ \E f \in flows : f.kind = "search" /\ f.seq = 3 /\ flows = {f}
    /\ searchButton.disabled

\* C29: the submit button is disabled during the whole of a submission, all
\* attempts and backoff waits of fetchWithRetry included, and is enabled
\* again on every way out (success, terminal error, retries exhausted,
\* unexpected status, unparsable body); so no submission starts while one is
\* in flight, and the button is enabled whenever none is.
C29_SubmitButtonLocked ==
    /\ [](spc = "awaiting" =>
            submitButton = [disabled |-> TRUE, innerHTML |-> SubmittingLabel])
    /\ [](spc = "idle" => ~submitButton.disabled /\ rpc = "idle")
    /\ [](rpc \in {"fetching", "waiting"} => submitButton.disabled)
    /\ [][SubmissionStarts => ~submitButton.disabled /\ rpc = "idle"]_vars
    /\ [][SubmissionEnds =>
            /\ submitButton' = [disabled |-> FALSE, innerHTML |-> SubmitLabel]
            /\ messageContainer'.className \in {"success", "error"}]_vars

C29_Witness ==
    /\ spc = "idle"
    /\ Len(responses) = 3
    /\ delays = <<1000, 2000>>
    /\ thrown.name = "HTTP Error"
    /\ messageContainer.className = "error"
    /\ submitButton = [disabled |-> FALSE, innerHTML |-> SubmitLabel]

\* C30: whenever fetchWithRetry has resolved with a 201 response whose body
\* parses as JSON, the submission shows the success message and not the
\* failure message, whatever the parsed body holds (a body without
\* metadata.name included).
C30_Created201IsSuccess ==
    (/\ spc = "idle"
     /\ returned.completed /\ returned.status = 201
     /\ JsonParse(returned.body).ok)
        => messageContainer.className = "success"

C32_ResolvesOnlyWithSuccess ==
    rpc = "resolved" =>
        /\ returned.completed /\ returned.status \in 200..299
        /\ responses # <<>> /\ responses[Len(responses)] = returned

(***************************************************************************)
(* Properties of the enrichment handlers                                   *)
(***************************************************************************)
\* C33: every entry of modelDetailsCache is a settled details record with a
\* rating and a cost, both plain values and never a promise or a pending
\* marker; an id gets an entry only in the step in which a detail fetch for
\* that id returns, with both of its sub-requests settled.
C33_CacheHoldsResolvedDetails ==
    /\ [](\A id \in DOMAIN modelDetailsCache :
            LET details == modelDetailsCache[id]
            IN  /\ DOMAIN details = {"rating", "cost"}
                /\ "state" \notin DOMAIN details.rating
                /\ details.rating.t \in {"number", "string"}
                /\ details.cost.t = "string")
    /\ [][\A id \in DOMAIN modelDetailsCache' \ DOMAIN modelDetailsCache :
            \E f \in FetchesCompleted :
               /\ f.card.id = id
               /\ lastFetch'.done /\ lastFetch'.id = id
               /\ \/ f.ratingPromise.state # "pending"
                  \/ f.costPromise.state # "pending"
                  \/ lastFetch'.failed]_vars

C33_Witness ==
    /\ "a" \in DOMAIN modelDetailsCache
    /\ modelDetailsCache["a"] = [rating |-> JNum(1), cost |-> JStr("12 MB")]
    /\ \E f \in fetches : f.card.id = "b"

\* C35: a card carries the 'loading' marker exactly while a detail fetch
\* started from it is in flight, overlapping clicks on the same card
\* included.
C35_LoadingWhileInFlight ==
    \A card \in CardsShown \cup loading \cup {f.card : f \in fetches} :
        card \in loading <=> \E f \in fetches : f.card = card

\* C34: one click is handled by one enrichment handler. A click on the
\* Details button of a card is passed over by the card's own listener and
\* handled by the listener of modelsGrid (which, unlike the card's listener,
\* also fetches for a card without id); a click elsewhere on the card is
\* handled by the card's listener only (which does nothing for a card
\* without id). So a click starts at most one detail fetch, opens at most
\* one modal, and never does both.
C34_OneHandlerPerClick ==
    /\ [][Click =>
            /\ Cardinality(FetchesStarted)
                  + (modal'.opened - modal.opened) <= 1
            /\ modal'.opened >= modal.opened
            /\ Cardinality(loading' \ loading) <= 1
            /\ \A f \in FetchesStarted : f.k = 0 /\ f.n = clicks']_vars
    /\ [][\A card \in CardsShown :
            /\ DetailsClick(card) =>
                  /\ \A f \in FetchesStarted : f.card = card
                  /\ Cardinality(FetchesStarted)
                        + (modal'.opened - modal.opened) = 1
            /\ CardClick(card) =>
                  /\ \A f \in FetchesStarted : f.card = card
                  /\ Cardinality(FetchesStarted)
                        + (modal'.opened - modal.opened)
                        = IF card.id = "" THEN 0 ELSE 1]_vars
    /\ [](\A f \in fetches : f.k = 0)

C34_Witness ==
    /\ clicks = 2
    /\ modal.opened = 1
    /\ \E f \in fetches : f.card.id = "" /\ f.n = 1

(***************************************************************************)
(* Properties of the artifact page                                         *)
(***************************************************************************)
IsDelete(request) == request = "DELETE"

IsLoad(request) == request # "DELETE"

\* the DELETE requests the page has sent
Deletes == SelectSeq(sent, IsDelete)

\* the requests loadArtifact has sent
Loads == SelectSeq(sent, IsLoad)

\* C36: a DELETE request is sent only in the step in which the user
\* confirms the prompt, one per confirmed click; the page goes to the home
\* page only on a DELETE response of status 200, and a response of any other
\* status leaves the page where it is and shows 'Delete failed.'.
C36_DeleteOnlyWhenConfirmed ==
    /\ [](Len(Deletes) = confirmed /\ confirmed <= prompts)
    /\ [][Len(Deletes') # Len(Deletes) =>
            /\ Len(Deletes') = Len(Deletes) + 1
            /\ prompts' = prompts + 1
            /\ confirmed' = confirmed + 1
            /\ deleting' = deleting + 1]_vars
    /\ [][prompts' # prompts /\ confirmed' = confirmed =>
            sent' = sent /\ deleting' = deleting]_vars
    /\ [][\A response \in DeleteOutcomes :
            DeleteArrives(response) =>
               IF response.completed /\ response.status = 200
                 THEN /\ location' = "home.html"
                      /\ alerts' =
                            Append(alerts, "Artifact deleted permanently.")
               ELSE IF response.completed
                 THEN /\ location' = location
                      /\ alerts' = Append(alerts, "Delete failed.")
               ELSE location' = location]_vars
    /\ [][location' # location =>
            /\ location' = "home.html"
            /\ DeleteArrives(HttpResponse(200, ""))]_vars

C36_Witness ==
    /\ location = "home.html"
    /\ prompts = 2 /\ confirmed = 2
    /\ alerts = <<"Delete failed.", "Artifact deleted permanently.">>

\* C37: loadArtifact sends its requests one after the other, each after the
\* answer to the one before: the metadata request, then the rating request,
\* then the README request; the rating request is sent for the type 'model'
\* only; and no failure of one of them leaves loadArtifact as an unhandled
\* rejection.
C37_LoadsInSequence ==
    /\ [](Loads \in IF artifactType = "model"
                      THEN {<<>>, <<"metadata">>, <<"metadata", "rating">>,
                            <<"metadata", "rating", "readme">>}
                      ELSE {<<>>, <<"metadata">>, <<"metadata", "readme">>})
    /\ [](/\ Len(answered) <= Len(Loads)
          /\ Len(Loads) - Len(answered) <= 1
          /\ answered = SubSeq(Loads, 1, Len(answered)))
    /\ [][Len(Loads') # Len(Loads) =>
            /\ Len(Loads') = Len(Loads) + 1
            /\ answered' = Loads]_vars
    /\ [](\A i \in 1..Len(unhandled) : unhandled[i] # "loadArtifact")
    /\ [](Len(consoleErrors) <= 1)

C37_Witness ==
    /\ artifactType = "model"
    /\ Loads = <<"metadata", "rating", "readme">>
    /\ answered = Loads
    /\ apc = "done"
    /\ readmeContent = NoReadme
    /\ consoleErrors = <<>>


====
